---- MODULE Spec2Model ----
(***************************************************************************)
(* State-machine model of the multi-agent orchestration bus:               *)
(*   - the worker-side bridge   (src/py/mcp_core/bridge/python_bridge.py)  *)
(*   - the tool registry        (cartrita_core/tools.py)                   *)
(*   - the in-process manager   (cartrita_core/agent_manager.py)           *)
(*   - the framed transport     (src/py/mcp_core/transport/unix_socket.py) *)
(*                                                                         *)
(* The bridge is an asyncio program: a coroutine runs atomically between   *)
(* two suspension points, so every action below is one such atomic piece.  *)
(* StreamWriter.write is synchronous and keeps the order of the calls.  The *)
(* frames written to the connection are kept per request: replies[h] is    *)
(* the sequence of frames written while serving the received message h, in *)
(* the order of the writes; originated is the set of frames the bridge     *)
(* wrote on its own initiative, shutdown_sent counts the shutdown frames.  *)
(* Frames are only ever appended, so the sequence on the connection is     *)
(* unchanged exactly when these three are.                                 *)
(* The bridge builds its messages with the fields                          *)
(* type / source / target / payload / correlation_id and uses the status   *)
(* name ACCEPTED; the model takes the bridge's own vocabulary.  The        *)
(* statistics counters of the bridge influence no decision and are left    *)
(* out.                                                                    *)
(***************************************************************************)
EXTENDS Integers, Sequences, FiniteSets, TLC

(***************************************************************************)
(* Bounds of the model                                                     *)
(***************************************************************************)
MaxMsgs == 2
MaxRegs == 2

MaxRegistryRegs == 3
MaxExec == 2
MaxObservedExec == 1

MaxConversations == 2

MaxNow == 2
MaxMgrTasks == 11
MaxRouted == 3
MaxCreates == 1
MaxPoolTasks == 2
MaxShutdowns == 2
MaxWorkerCalls == 3

\* max_concurrent_tasks of CartritaAgentManager.__init__
max_concurrent_tasks == 10

\* description[:100] in the delegation history
HistoryDescriptionLimit == 100

(***************************************************************************)
(* Input domains                                                           *)
(***************************************************************************)
Agents == {"a1", "a2"}
TaskIds == {"t1", "t2"}
ReqCaps == {"c1", "c2", "c9"}
Caps == {"c1", "c2"}
MsgTypes == {"task_request", "heartbeat", "agent_query", "status_request", "config_update"}
ReturnStatuses == {"COMPLETED", "FAILED"}
TerminalStatuses == {"COMPLETED", "FAILED", "CANCELLED", "TIMEOUT"}
ResponseTypes == {"task_response", "heartbeat_response", "agent_query_response", "status_response"}
OriginatedTypes == {"handshake", "agent_registration", "heartbeat", "shutdown"}
NoCorr == 0

\* tool registry: the six core tools, and the names the operations are tried with
CoreTools == {"web_search", "file_read", "file_write", "screenshot", "system_info",
              "execute_code"}
Levels == {"public", "restricted", "supervised", "admin"}
RegLevels == {"public", "restricted", "admin"}
ToolAgents == {"A", "B"}
RegNames == {"file_read", "admin_tool"}
GrantNames == {"file_read", "admin_tool", "missing_tool"}
ExecNames == {"file_read", "admin_tool", "missing_tool"}
ToolNames == CoreTools \cup RegNames \cup GrantNames \cup ExecNames
NoTask == "-"
NoAgent == "-"
NoStatus == "-"
NoCode == "-"

\* framed transport: the two connection objects, the activities that send,
\* and what a receive loop may read
Conns == {"srv", "cli"}
Senders == {"s1", "s2"}
MaxFrames == 3
MaxSends == 3
HeaderSize == 4
max_message_size == 10 * 1024 * 1024
Lengths == {0, 1, max_message_size, max_message_size + 1}
BodyKinds == {"garbage", "invalid", "valid"}
MessageTypes == {"TASK_REQUEST", "HEARTBEAT"}
NoCorrelation == [prefix |-> "-", of |-> 0]
NoClient == "-"
NoFrame == [n |-> 0, length |-> -1, kind |-> "none", mtype |-> "-", fails |-> FALSE,
            packed |-> FALSE]


VARIABLES
    is_connected,      \* self.is_connected
    writer,            \* self.writer: "none" | "open" | "closed" (close() called)
    peer_open,         \* the orchestrator's end of the stream is open
    replies,           \* frames written in reply to each received message, in order
    originated,        \* frames written on the bridge's own initiative
    shutdown_sent,     \* shutdown frames written
    nmsg,              \* messages received so far; their ids are 1..nmsg
    registered_agents, \* self.registered_agents, as the sequence of its keys
    capability_index,  \* self.capability_index
    reg_calls,         \* register_python_agent calls made
    active_tasks,      \* self.active_tasks: task id -> execution activity (0: no entry)
    task_results,      \* self.task_results, as the set of its keys
    reg_log,           \* the agent names stored by register_python_agent, call by call
    bridge_env,        \* how many register calls and messages this run follows
    act,               \* the execution activities, one per request message id
    hpc,               \* position of _message_handler_loop
    hbpc,              \* position of _heartbeat_loop
    spc,               \* position of shutdown
    shutdown_done,     \* a shutdown call has returned since the connection was opened
    tools,             \* CartritaToolRegistry.tools, as the set of its keys
    tool_permissions,  \* CartritaToolRegistry.tool_permissions
    agent_permissions, \* CartritaToolRegistry.agent_permissions: agent -> list of names
    tool_usage,        \* CartritaToolRegistry.tool_usage
    execution_history, \* CartritaToolRegistry.execution_history
    last_invoked,      \* the latest call of a tool's callable, with the permission
                       \* level and the grant at that moment
    tool_call,         \* the latest call of the registry and what it returned
    tool_env,          \* what this run follows of the registry
    mgr_active_tasks,  \* CartritaAgentManager.active_tasks, as the set of its keys
    mgr_issued,        \* task ids issued by the manager so far
    mgr_agents,        \* CartritaAgentManager.agents, as the set of its keys
    mgr_assigned,      \* the worker and description of each execute_task call in flight
    mgr_performance,   \* agent_performance: tasks_completed and success_rate
    mgr_delegation_history, \* CartritaAgentManager.delegation_history
    mgr_last,          \* arguments and choice of the latest execute_task call
    mgr_env,           \* the callers of execute_task in this run
    mgr_agent_configs, \* CartritaAgentManager.agent_configs (where the model name is from)
    mgr_created,       \* the latest create_agent call from outside and how it ended
    mgr_init_done,     \* _initialize_default_agents has run
    mgr_task_results,  \* CartritaAgentManager.task_results: how each stored response ended
    mgr_shut,          \* shutdown_agent and shutdown_all calls made
    rt_description,    \* the description _route_task is called with
    rt_chosen,         \* what _route_task returned
    _clients,          \* MCPUnixSocketServer._clients, as the set of its keys
    conn_running,      \* UnixSocketConnection._running, per connection
    rpc,               \* position of each connection's _receive_loop
    cur,               \* the frame the receive loop is working on (its locals)
    nframes,           \* frames each receive loop has begun to read
    delivered,         \* ids of the messages handed to message_handler, in order
    body_reads,        \* frames for whose body reader.read was called
    wire,              \* what was written to each connection's writer, in order
    tickets,           \* send_message calls made on each connection
    snd,               \* the activities that call send_message
    loop_later,        \* what the receive loop's own send writes after its drain
    wclosed,           \* writer.close() was called
    _connected,        \* MCPUnixSocketClient._connected
    _connection,       \* MCPUnixSocketClient._connection is not None
    cpc,               \* position of MCPUnixSocketClient.connect
    followed,          \* the process of this run: the server ("srv") or the client ("cli")
    conversations,     \* CartritaResponsesClient.conversations, in the dict's order
    max_conversations, \* CartritaResponsesClient.max_conversations
    conv_now,          \* what datetime.now() returns
    conv_pending,      \* conversation ids of the create_response calls in flight
    conv_read,         \* when get_conversation_history last returned each entry
    wk_status,         \* CartritaCoreAgent.status of one worker
    wk_current_task,   \* CartritaCoreAgent.current_task of that worker
    wk_calls           \* where each execute_task call on that worker is

bridgeVars == <<is_connected, writer, peer_open, replies, originated, shutdown_sent,
                nmsg, registered_agents, capability_index, reg_calls, active_tasks,
                task_results, reg_log, bridge_env, act, hpc, hbpc, spc, shutdown_done>>

toolVars == <<tools, tool_permissions, agent_permissions, tool_usage, execution_history,
              last_invoked, tool_call, tool_env>>

mgrVars == <<mgr_active_tasks, mgr_issued, mgr_agents, mgr_assigned, mgr_performance,
            mgr_delegation_history, mgr_last, mgr_env, mgr_agent_configs, mgr_created,
            mgr_init_done, mgr_task_results, mgr_shut>>

routerVars == <<rt_description, rt_chosen>>

convVars == <<conversations, max_conversations, conv_now, conv_pending, conv_read>>

workerVars == <<wk_status, wk_current_task, wk_calls>>

transportVars == <<_clients, conn_running, rpc, cur, nframes, delivered, body_reads,
                   wire, tickets, snd, loop_later, wclosed, _connected, _connection, cpc,
                   followed>>

vars == <<bridgeVars, toolVars, mgrVars, transportVars, routerVars, convVars, workerVars>>

(***************************************************************************)
(* The conversation store of CartritaResponsesClient                       *)
(* (cartrita_core/responses_api.py).  self.conversations is a dict: it is  *)
(* modelled as the sequence of its entries in the dict's order, each with  *)
(* its id and its last_activity; datetime.now() is the clock conv_now,     *)
(* which never goes back and may give the same value to two calls.         *)
(***************************************************************************)
ConvIds == {"c1", "c2", "c3"}

Capacities == 0..MaxConversations

NeverRead == -1

InitConversations ==
    /\ conversations = <<>>
    /\ max_conversations \in Capacities
    /\ conv_now = 0
    /\ conv_pending = {}
    /\ conv_read = [id \in ConvIds |-> NeverRead]

HasConversation(convs, id) ==
    \E i \in 1..Len(convs) : convs[i].conversation_id = id

ActivityOf(convs, id) ==
    LET i == CHOOSE j \in 1..Len(convs) : convs[j].conversation_id = id
    IN  convs[i].last_activity

\* conv.last_activity = datetime.now()
Touch(convs, id, now) ==
    [i \in 1..Len(convs) |->
        IF convs[i].conversation_id = id
        THEN [convs[i] EXCEPT !.last_activity = now]
        ELSE convs[i]]

\* one step of sorted(..., key=last_activity): e goes behind every entry whose
\* key is not greater, so entries of equal key keep the dict's order
InsertByActivity(s, e) ==
    LET k == Cardinality({i \in 1..Len(s) : s[i].last_activity <= e.last_activity})
    IN  SubSeq(s, 1, k) \o <<e>> \o SubSeq(s, k + 1, Len(s))

RECURSIVE sorted_convs(_)
sorted_convs(convs) ==
    IF convs = <<>>
    THEN <<>>
    ELSE InsertByActivity(sorted_convs(SubSeq(convs, 1, Len(convs) - 1)),
                          convs[Len(convs)])

\* the slice s[-n:]; s[-0:] is s[0:], the whole list
LastN(s, n) ==
    IF n = 0 \/ n >= Len(s) THEN s ELSE SubSeq(s, Len(s) - n + 1, Len(s))

_cleanup_old_conversations(convs, capacity) ==
    IF Len(convs) <= capacity
    THEN convs
    ELSE LastN(sorted_convs(convs), capacity)

_get_or_create_conversation(convs, id, now, capacity) ==
    IF HasConversation(convs, id)
    THEN Touch(convs, id, now)
    ELSE _cleanup_old_conversations(
             Append(convs, [conversation_id |-> id, last_activity |-> now]),
             capacity)

\* time passes
ConvTick ==
    /\ conv_now < MaxNow
    /\ conv_now' = conv_now + 1
    /\ UNCHANGED <<conversations, max_conversations, conv_pending, conv_read>>
    /\ UNCHANGED <<bridgeVars, toolVars, mgrVars, transportVars, routerVars, workerVars>>

\* create_response with a conversation id, up to its await of the provider
CreateResponseBegin(id) ==
    /\ id \notin conv_pending
    /\ conversations' =
           _get_or_create_conversation(conversations, id, conv_now, max_conversations)
    /\ conv_pending' = conv_pending \cup {id}
    /\ UNCHANGED <<max_conversations, conv_now, conv_read>>
    /\ UNCHANGED <<bridgeVars, toolVars, mgrVars, transportVars, routerVars, workerVars>>

\* the provider answered: _process_response writes the exchange into the
\* conversation if it is still in the store
CreateResponseReturn(id) ==
    /\ id \in conv_pending
    /\ conversations' =
           IF HasConversation(conversations, id)
           THEN Touch(conversations, id, conv_now)
           ELSE conversations
    /\ conv_pending' = conv_pending \ {id}
    /\ UNCHANGED <<max_conversations, conv_now, conv_read>>
    /\ UNCHANGED <<bridgeVars, toolVars, mgrVars, transportVars, routerVars, workerVars>>

\* the provider call raised: the except branch leaves the store alone
CreateResponseRaise(id) ==
    /\ id \in conv_pending
    /\ conv_pending' = conv_pending \ {id}
    /\ UNCHANGED <<conversations, max_conversations, conv_now, conv_read>>
    /\ UNCHANGED <<bridgeVars, toolVars, mgrVars, transportVars, routerVars, workerVars>>

\* get_conversation_history returns the entry, or None, and writes nothing;
\* conv_read notes when an entry was last returned
get_conversation_history(id) ==
    /\ conv_read' =
           IF HasConversation(conversations, id)
           THEN [conv_read EXCEPT ![id] = conv_now]
           ELSE conv_read
    /\ UNCHANGED <<conversations, max_conversations, conv_now, conv_pending>>
    /\ UNCHANGED <<bridgeVars, toolVars, mgrVars, transportVars, routerVars, workerVars>>

NextConversations ==
    \/ ConvTick
    \/ \E id \in ConvIds : CreateResponseBegin(id)
    \/ \E id \in ConvIds : CreateResponseReturn(id)
    \/ \E id \in ConvIds : CreateResponseRaise(id)
    \/ \E id \in ConvIds : get_conversation_history(id)

(***************************************************************************)
(* One worker (cartrita_core/cartrita_agent.py, CartritaCoreAgent).  The   *)
(* manager awaits the worker's execute_task without a lock, so several of  *)
(* its execute_task calls can be inside the same worker's execute_task at  *)
(* once; each suspends in the call of the provider.                        *)
(***************************************************************************)
WorkerCalls == 1..MaxWorkerCalls

InitWorker ==
    /\ wk_status = "idle"
    /\ wk_current_task = NoTask
    /\ wk_calls = [c \in WorkerCalls |-> "none"]

\* execute_task up to its await of client.responses.create
WorkerExecuteBegin(c) ==
    /\ wk_calls[c] = "none"
    /\ wk_calls' = [wk_calls EXCEPT ![c] = "running"]
    /\ wk_current_task' = c
    /\ wk_status' = "active"
    /\ UNCHANGED <<bridgeVars, toolVars, mgrVars, transportVars, routerVars, convVars>>

\* the provider answered and the response was processed (lines 224-235)
WorkerExecuteReturn(c) ==
    /\ wk_calls[c] = "running"
    /\ wk_calls' = [wk_calls EXCEPT ![c] = "returned"]
    /\ wk_status' = "idle"
    /\ wk_current_task' = NoTask
    /\ UNCHANGED <<bridgeVars, toolVars, mgrVars, transportVars, routerVars, convVars>>

\* the except branch (lines 237-253): the status is ERROR, current_task stays
WorkerExecuteFail(c) ==
    /\ wk_calls[c] = "running"
    /\ wk_calls' = [wk_calls EXCEPT ![c] = "failed"]
    /\ wk_status' = "error"
    /\ UNCHANGED wk_current_task
    /\ UNCHANGED <<bridgeVars, toolVars, mgrVars, transportVars, routerVars, convVars>>

\* shutdown (lines 532-538)
WorkerShutdown ==
    /\ wk_status' = "offline"
    /\ UNCHANGED <<wk_current_task, wk_calls>>
    /\ UNCHANGED <<bridgeVars, toolVars, mgrVars, transportVars, routerVars, convVars>>

NextWorker ==
    \/ \E c \in WorkerCalls : WorkerExecuteBegin(c)
    \/ \E c \in WorkerCalls : WorkerExecuteReturn(c)
    \/ \E c \in WorkerCalls : WorkerExecuteFail(c)
    \/ WorkerShutdown

MsgIds == 1..MaxMsgs

(***************************************************************************)
(* Messages                                                                *)
(***************************************************************************)
\* the payloads the bridge builds itself have no error_code key
Msg(type, corr, task, status, agent) ==
    [type |-> type, corr |-> corr, task |-> task, status |-> status, agent |-> agent,
     code |-> NoCode]

\* the capability names an agent declares (agent.capabilities)
AgentCaps(a) == IF a = "a1" THEN {"c1"} ELSE {"c1", "c2"}

\* PythonAgent.can_handle_task
can_handle_task(a, req) == req \in AgentCaps(a)

\* _send_message succeeds iff there is a writer and the transport is up
SendOK(w, po) == w = "open" /\ po

\* the frames of a request after the frames fs are sent one after the other
SendAll(ws, fs, w, po) == IF SendOK(w, po) THEN ws \o fs ELSE ws

\* a reply built without its correlation id
CorrelationIdNone(m) == NoCorr

\* correlation_id=message.id in every reply
CorrelationId(m) == m.id

NoAct == [pc |-> "none", task |-> NoTask, agent |-> NoAgent, corr |-> NoCorr,
          cancel |-> FALSE, expired |-> FALSE, outcome |-> "none"]

\* a run that follows the tasks of MaxMsgs messages after MaxRegs registrations
TaskEnv == [regs |-> MaxRegs, msgs |-> MaxMsgs]

\* a run that follows one message after MaxRegistryRegs registrations
RegistryEnv == [regs |-> MaxRegistryRegs, msgs |-> 1]

InitBridge ==
    /\ is_connected = FALSE
    /\ writer = "none"
    /\ peer_open = FALSE
    /\ replies = [h \in MsgIds |-> <<>>]
    /\ originated = {}
    /\ shutdown_sent = 0
    /\ nmsg = 0
    /\ registered_agents = <<>>
    /\ capability_index = [c \in Caps |-> <<>>]
    /\ reg_calls = 0
    /\ active_tasks = [t \in TaskIds |-> 0]
    /\ task_results = {}
    /\ reg_log = <<>>
    /\ bridge_env \in {TaskEnv, RegistryEnv}
    /\ act = [h \in MsgIds |-> NoAct]
    /\ hpc = "idle"
    /\ hbpc = "idle"
    /\ spc = "idle"
    /\ shutdown_done = FALSE

\* the originated frames after _send_message(m)
SendOwn(m) == IF SendOK(writer, peer_open) THEN originated \cup {m} ELSE originated

(***************************************************************************)
(* initialize / _connect_to_orchestrator                                   *)
(***************************************************************************)
Initialize ==
    /\ UNCHANGED <<task_results, bridge_env, reg_log, toolVars, mgrVars, transportVars,
                   routerVars, convVars, workerVars>>
    /\ writer = "none"
    /\ hpc = "idle"
    /\ \E ok \in BOOLEAN :
         IF ok
         THEN /\ writer' = "open"
              /\ peer_open' = TRUE
              /\ is_connected' = TRUE
              /\ originated' = originated \cup {Msg("handshake", NoCorr, NoTask, NoStatus, NoAgent)}
              /\ hpc' = "sleep"
              /\ hbpc' = "sleep"
         ELSE \* connected, but the handshake could not be sent
              /\ writer' = "open"
              /\ peer_open' = FALSE
              /\ is_connected' = FALSE
              /\ UNCHANGED <<originated, hpc, hbpc>>
    /\ shutdown_done' = FALSE
    /\ UNCHANGED <<replies, shutdown_sent, nmsg, registered_agents, capability_index,
                   reg_calls, active_tasks, act, spc>>

(***************************************************************************)
(* register_python_agent: the capability index is updated before the       *)
(* registration message is sent; the agent is stored only after the send.  *)
(***************************************************************************)
InSeq(x, s) == \E i \in 1..Len(s) : s[i] = x

\* a dict that moves a key stored again to its end
StoreAgentLast(agents, a, sent) ==
    IF sent THEN Append(SelectSeq(agents, LAMBDA x : x # a), a) ELSE agents

\* self.registered_agents[agent.name] = agent, reached when the send returned:
\* a key that is already in the dict keeps its place
StoreAgent(agents, a, sent) ==
    IF sent /\ ~InSeq(a, agents) THEN Append(agents, a) ELSE agents

register_python_agent(a) ==
    /\ UNCHANGED <<task_results, bridge_env, toolVars, mgrVars, transportVars,
                   routerVars, convVars, workerVars>>
    /\ reg_calls < bridge_env.regs
    /\ reg_calls' = reg_calls + 1
    /\ capability_index' = [c \in Caps |->
                              IF c \in AgentCaps(a) THEN Append(capability_index[c], a)
                                                    ELSE capability_index[c]]
    /\ originated' = SendOwn(Msg("agent_registration", NoCorr, NoTask, NoStatus, a))
    /\ registered_agents' = StoreAgent(registered_agents, a, SendOK(writer, peer_open))
    /\ reg_log' = IF SendOK(writer, peer_open) THEN Append(reg_log, a) ELSE reg_log
    /\ UNCHANGED <<is_connected, writer, peer_open, replies, shutdown_sent, nmsg,
                   active_tasks, act, hpc, hbpc, spc, shutdown_done>>

(***************************************************************************)
(* _handle_task_request                                                    *)
(***************************************************************************)
\* every registered agent taken as capable
CapableAgentsAll(req) == registered_agents

\* the registered agents whose can_handle_task accepts the request, in dict order
CapableAgents(req) == SelectSeq(registered_agents, LAMBDA a : can_handle_task(a, req))

\* an activity started eagerly inside create_task writes its running update
\* before the handler writes the acceptance
SpawnTaskEager(m, a) ==
    [frames |-> <<Msg("task_response", CorrelationId(m), m.task, "RUNNING", a),
                  Msg("task_response", CorrelationId(m), m.task, "ACCEPTED", a)>>,
     pc |-> "executing"]

\* lines 323-343: create_task only schedules the activity; the acceptance is
\* written before the handler suspends, so before the activity's first step
SpawnTask(m, a) ==
    [frames |-> <<Msg("task_response", CorrelationId(m), m.task, "ACCEPTED", a)>>,
     pc |-> "created"]

_handle_task_request(m, po) ==
    LET capable == CapableAgents(m.req) IN
    IF capable = <<>>
    THEN /\ replies' = [replies EXCEPT ![m.id] =
                          SendAll(@, <<Msg("task_response", CorrelationId(m), m.task,
                                           "FAILED", NoAgent)>>, writer, po)]
         /\ UNCHANGED <<active_tasks, act>>
    ELSE LET a == capable[1]
             sp == SpawnTask(m, a) IN
         /\ act' = [act EXCEPT ![m.id] = [pc |-> sp.pc, task |-> m.task, agent |-> a,
                                          corr |-> CorrelationId(m), cancel |-> FALSE,
                                          expired |-> FALSE, outcome |-> "none"]]
         /\ active_tasks' = [active_tasks EXCEPT ![m.task] = m.id]
         /\ replies' = [replies EXCEPT ![m.id] = SendAll(@, sp.frames, writer, po)]

\* _handle_heartbeat, _handle_agent_query, _handle_status_request: one reply each
ReplyType(type) ==
    CASE type = "heartbeat" -> "heartbeat_response"
      [] type = "agent_query" -> "agent_query_response"
      [] type = "status_request" -> "status_response"

_handle_query(m, po) ==
    /\ replies' = [replies EXCEPT ![m.id] =
                     SendAll(@, <<Msg(ReplyType(m.type), CorrelationId(m), NoTask,
                                      NoStatus, NoAgent)>>, writer, po)]
    /\ UNCHANGED <<active_tasks, act>>

(***************************************************************************)
(* _message_handler_loop.  A handler runs without suspending up to its     *)
(* write, so receiving and handling one message is one step.  "gone" says  *)
(* that the orchestrator has closed its end by the time the reply is       *)
(* written.  A send failure in _handle_task_request is caught there; in    *)
(* the other handlers it reaches the loop, which sleeps 1 s.               *)
(***************************************************************************)
LoopTest == IF is_connected THEN "recv" ELSE "stopped"

\* a handler that awaited the activity it created would stay in the request
AfterTaskRequestAwaiting == "awaiting"

\* _handle_task_request returns once its acceptance is written (create_task
\* does not wait for the activity), and the loop tests its condition again
AfterTaskRequest == LoopTest

Received(type, t, rc) == [id |-> nmsg + 1, type |-> type, task |-> t, req |-> rc]

\* one iteration of the loop that receives the message m; po is peer_open by
\* the time the reply is written
HandleMessage(m, po) ==
    /\ hpc = "recv"
    /\ writer = "open"
    /\ peer_open
    /\ nmsg < bridge_env.msgs
    /\ peer_open' = po
    /\ CASE m.type = "task_request" ->
              /\ _handle_task_request(m, po)
              /\ hpc' = AfterTaskRequest
         [] m.type \in {"heartbeat", "agent_query", "status_request"} ->
              /\ _handle_query(m, po)
              /\ hpc' = IF SendOK(writer, po) THEN LoopTest ELSE "sleep"
         [] OTHER ->
              /\ hpc' = LoopTest
              /\ UNCHANGED <<replies, active_tasks, act>>
    /\ nmsg' = nmsg + 1
    /\ UNCHANGED <<is_connected, writer, originated, shutdown_sent, registered_agents,
                   capability_index, reg_calls, hbpc, spc, shutdown_done>>
    /\ UNCHANGED <<task_results, bridge_env, reg_log, toolVars, mgrVars, transportVars,
                   routerVars, convVars, workerVars>>

HandlerReceive ==
    \E type \in MsgTypes, t \in TaskIds, rc \in ReqCaps, gone \in BOOLEAN :
        HandleMessage(Received(type, t, rc), ~gone)

\* _receive_message returns None (end of stream, short or undecodable frame):
\* the loop sleeps 0.1 s and continues
HandlerNone ==
    /\ UNCHANGED <<task_results, bridge_env, reg_log, toolVars, mgrVars, transportVars,
                   routerVars, convVars, workerVars>>
    /\ hpc = "recv"
    /\ hpc' = "sleep"
    /\ UNCHANGED <<is_connected, writer, peer_open, replies, originated, shutdown_sent,
                   nmsg, registered_agents, capability_index, reg_calls, active_tasks,
                   act, hbpc, spc, shutdown_done>>

\* the loop's first step, and its wake-up after a sleep: the while test
HandlerWake ==
    /\ UNCHANGED <<task_results, bridge_env, reg_log, toolVars, mgrVars, transportVars,
                   routerVars, convVars, workerVars>>
    /\ hpc = "sleep"
    /\ hpc' = LoopTest
    /\ UNCHANGED <<is_connected, writer, peer_open, replies, originated, shutdown_sent,
                   nmsg, registered_agents, capability_index, reg_calls, active_tasks,
                   act, hbpc, spc, shutdown_done>>

(***************************************************************************)
(* _heartbeat_loop: one iteration per wake-up; it sleeps 30 s after a      *)
(* heartbeat and 5 s after a failed send                                    *)
(***************************************************************************)
HeartbeatTick ==
    /\ UNCHANGED <<task_results, bridge_env, reg_log, toolVars, mgrVars, transportVars,
                   routerVars, convVars, workerVars>>
    /\ hbpc = "sleep"
    /\ IF is_connected
       THEN /\ originated' = SendOwn(Msg("heartbeat", NoCorr, NoTask, NoStatus, NoAgent))
            /\ hbpc' = "sleep"
       ELSE /\ hbpc' = "stopped"
            /\ UNCHANGED originated
    /\ UNCHANGED <<is_connected, writer, peer_open, replies, shutdown_sent, nmsg,
                   registered_agents, capability_index, reg_calls, active_tasks, act,
                   hpc, spc, shutdown_done>>

\* the orchestrator closes its end of the stream
PeerClose ==
    /\ UNCHANGED <<task_results, bridge_env, reg_log, toolVars, mgrVars, transportVars,
                   routerVars, convVars, workerVars>>
    /\ writer = "open"
    /\ peer_open
    /\ peer_open' = FALSE
    /\ UNCHANGED <<is_connected, writer, replies, originated, shutdown_sent, nmsg,
                   registered_agents, capability_index, reg_calls, active_tasks, act,
                   hpc, hbpc, spc, shutdown_done>>

(***************************************************************************)
(* _execute_agent_task, one activity per accepted request.  Positions:     *)
(* "created" (scheduled by create_task), "executing" (suspended in         *)
(* agent.execute_task), "done" (returned or ended by an exception),        *)
(* "cancelled" (ended by CancelledError, which except Exception does not   *)
(* catch).                                                                 *)
(***************************************************************************)
Live(h) == act[h].pc \in {"created", "executing"}

\* an except branch that only logs
ErrorResponseNone(a) == <<>>

\* the error response of the except branch (lines 398-416)
ErrorResponse(a) == <<Msg("task_response", a.corr, a.task, "FAILED", a.agent)>>

\* first step: the running update; when it cannot be sent the except branch
\* tries the error response, which fails the same way and ends the activity
TaskStart(h) ==
    /\ UNCHANGED <<task_results, bridge_env, reg_log, toolVars, mgrVars, transportVars,
                   routerVars, convVars, workerVars>>
    /\ act[h].pc = "created"
    /\ ~act[h].cancel
    /\ IF SendOK(writer, peer_open)
       THEN /\ replies' = [replies EXCEPT ![h] =
                             Append(@, Msg("task_response", act[h].corr, act[h].task,
                                           "RUNNING", act[h].agent))]
            /\ act' = [act EXCEPT ![h].pc = "executing"]
       ELSE /\ replies' = [replies EXCEPT ![h] =
                             SendAll(@, ErrorResponse(act[h]), writer, peer_open)]
            /\ act' = [act EXCEPT ![h].pc = "done", ![h].outcome = "send_failed"]
    /\ UNCHANGED <<is_connected, writer, peer_open, originated, shutdown_sent, nmsg,
                   registered_agents, capability_index, reg_calls, active_tasks,
                   hpc, hbpc, spc, shutdown_done>>

\* agent.execute_task returns a response with the given status; ser says
\* whether its payload can be packed.  Only the path on which the completion
\* response was sent removes the task id from active_tasks.
TaskExecReturn(h) ==
    /\ UNCHANGED <<task_results, bridge_env, reg_log, toolVars, mgrVars, transportVars,
                   routerVars, convVars, workerVars>>
    /\ act[h].pc = "executing"
    /\ ~act[h].cancel
    /\ \E status \in ReturnStatuses, ser \in BOOLEAN :
         IF ser /\ SendOK(writer, peer_open)
         THEN /\ replies' = [replies EXCEPT ![h] =
                               Append(@, Msg("task_response", act[h].corr, act[h].task,
                                             status, act[h].agent))]
              /\ active_tasks' = [active_tasks EXCEPT ![act[h].task] = 0]
              /\ act' = [act EXCEPT ![h].pc = "done", ![h].outcome = "returned"]
         ELSE /\ replies' = [replies EXCEPT ![h] =
                               SendAll(@, ErrorResponse(act[h]), writer, peer_open)]
              /\ act' = [act EXCEPT ![h].pc = "done", ![h].outcome = "send_failed"]
              /\ UNCHANGED active_tasks
    /\ UNCHANGED <<is_connected, writer, peer_open, originated, shutdown_sent, nmsg,
                   registered_agents, capability_index, reg_calls, hpc, hbpc, spc,
                   shutdown_done>>

\* agent.execute_task raises: the except branch sends the error response
TaskExecRaise(h) ==
    /\ UNCHANGED <<task_results, bridge_env, reg_log, toolVars, mgrVars, transportVars,
                   routerVars, convVars, workerVars>>
    /\ act[h].pc = "executing"
    /\ ~act[h].cancel
    /\ replies' = [replies EXCEPT ![h] =
                     SendAll(@, ErrorResponse(act[h]), writer, peer_open)]
    /\ act' = [act EXCEPT ![h].pc = "done", ![h].outcome = "raised"]
    /\ UNCHANGED <<is_connected, writer, peer_open, originated, shutdown_sent, nmsg,
                   registered_agents, capability_index, reg_calls, active_tasks,
                   hpc, hbpc, spc, shutdown_done>>

\* the cancellation requested by shutdown reaches the activity at its
\* suspension point (or before its first step)
TaskCancelled(h) ==
    /\ UNCHANGED <<task_results, bridge_env, reg_log, toolVars, mgrVars, transportVars,
                   routerVars, convVars, workerVars>>
    /\ Live(h)
    /\ act[h].cancel
    /\ act' = [act EXCEPT ![h].pc = "cancelled", ![h].outcome = "cancelled"]
    /\ UNCHANGED <<is_connected, writer, peer_open, replies, originated, shutdown_sent,
                   nmsg, registered_agents, capability_index, reg_calls, active_tasks,
                   hpc, hbpc, spc, shutdown_done>>

\* the request's timeout_ms elapses while the activity is alive; no code of
\* the bridge reads the timeout
TimeoutElapse(h) ==
    /\ UNCHANGED <<task_results, bridge_env, reg_log, toolVars, mgrVars, transportVars,
                   routerVars, convVars, workerVars>>
    /\ Live(h)
    /\ ~act[h].cancel
    /\ ~act[h].expired
    /\ act' = [act EXCEPT ![h].expired = TRUE]
    /\ UNCHANGED <<is_connected, writer, peer_open, replies, originated, shutdown_sent,
                   nmsg, registered_agents, capability_index, reg_calls, active_tasks,
                   hpc, hbpc, spc, shutdown_done>>

(***************************************************************************)
(* shutdown.  Up to the write of the shutdown message nothing suspends;    *)
(* the call then waits in wait_closed.  An exception anywhere (a failed    *)
(* send) is logged and ends the call.                                      *)
(***************************************************************************)
InActiveTasks(h) == \E t \in TaskIds : active_tasks[t] = h

\* task.cancel() for every entry of active_tasks
CancelAll == [h \in MsgIds |->
                IF InActiveTasks(h) /\ Live(h) THEN [act[h] EXCEPT !.cancel = TRUE]
                                               ELSE act[h]]

ShutdownMsg == Msg("shutdown", NoCorr, NoTask, NoStatus, NoAgent)

\* a shutdown that announces itself whenever it has a writer and leaves the
\* transport open
ShutdownCallNoClose ==
    /\ UNCHANGED <<task_results, bridge_env, reg_log, toolVars, mgrVars, transportVars,
                   routerVars, convVars, workerVars>>
    /\ spc = "idle"
    /\ act' = CancelAll
    /\ shutdown_sent' = IF SendOK(writer, peer_open) THEN shutdown_sent + 1 ELSE shutdown_sent
    /\ originated' = SendOwn(ShutdownMsg)
    /\ is_connected' = FALSE
    /\ shutdown_done' = TRUE
    /\ UNCHANGED <<writer, spc, peer_open, replies, nmsg, registered_agents,
                   capability_index, reg_calls, active_tasks, hpc, hbpc>>

ShutdownCall ==
    /\ UNCHANGED <<task_results, bridge_env, reg_log, toolVars, mgrVars, transportVars,
                   routerVars, convVars, workerVars>>
    /\ spc = "idle"
    /\ act' = CancelAll
    /\ IF is_connected /\ ~SendOK(writer, peer_open)
       THEN \* _send_message raises: logged, the call ends here
            /\ shutdown_done' = TRUE
            /\ UNCHANGED <<shutdown_sent, originated, writer, is_connected, spc>>
       ELSE /\ shutdown_sent' = IF is_connected THEN shutdown_sent + 1 ELSE shutdown_sent
            /\ originated' = IF is_connected THEN originated \cup {ShutdownMsg} ELSE originated
            /\ IF writer # "none"
               THEN /\ writer' = "closed"
                    /\ spc' = "closing"
                    /\ UNCHANGED <<is_connected, shutdown_done>>
               ELSE /\ is_connected' = FALSE
                    /\ shutdown_done' = TRUE
                    /\ UNCHANGED <<writer, spc>>
    /\ UNCHANGED <<peer_open, replies, nmsg, registered_agents,
                   capability_index, reg_calls, active_tasks, hpc, hbpc>>

\* wait_closed returns; the bridge is marked disconnected
ShutdownFinish ==
    /\ UNCHANGED <<task_results, bridge_env, reg_log, toolVars, mgrVars, transportVars,
                   routerVars, convVars, workerVars>>
    /\ spc = "closing"
    /\ is_connected' = FALSE
    /\ spc' = "idle"
    /\ shutdown_done' = TRUE
    /\ UNCHANGED <<writer, peer_open, replies, originated, shutdown_sent, nmsg,
                   registered_agents, capability_index, reg_calls, active_tasks, act,
                   hpc, hbpc>>

(***************************************************************************)
(* Tool registry (cartrita_core/tools.py)                                  *)
(***************************************************************************)
CoreLevel(n) ==
    CASE n \in {"web_search", "system_info"} -> "public"
      [] n \in {"file_read", "file_write", "screenshot"} -> "restricted"
      [] n = "execute_code" -> "supervised"
      [] OTHER -> "none"

NoInvocation == [agent |-> "-", tool |-> "-", level |-> "-", granted |-> FALSE]

\* a call of the registry and what it returned; result is the error of
\* execute_tool ("-": none), tools_returned the keys get_tools_for_agent returned
Call(op, agent, names, result, returned) ==
    [op |-> op, agent |-> agent, names |-> names, result |-> result,
     tools_returned |-> returned]

NoCall == Call("-", "-", <<>>, "-", {})

\* the argument lists tried: one name, or two names of which the first is
\* registered from the start
NameLists == {<<n>> : n \in GrantNames} \cup {<<"file_read", n>> : n \in GrantNames}

\* runs that follow the execution log, and runs that follow every call:
\* who calls execute_tool and get_tools_for_agent, and which grants and
\* revocations are made
UsageEnv ==
    [observe |-> FALSE, max_exec |-> MaxExec, callers |-> ToolAgents,
     grants |-> ToolAgents \X NameLists]
CallsEnv ==
    [observe |-> TRUE, max_exec |-> MaxObservedExec, callers |-> {"A"},
     grants |-> ({"A"} \X NameLists) \cup {<<"B", <<"file_read">>>>}]

Observed(call) == IF tool_env.observe THEN call ELSE NoCall

\* __init__ followed by _register_core_tools
InitTools ==
    /\ tools = CoreTools
    /\ tool_permissions = [n \in ToolNames |-> CoreLevel(n)]
    /\ agent_permissions = [a \in {} |-> <<>>]
    /\ tool_usage = [n \in ToolNames |-> 0]
    /\ execution_history = <<>>
    /\ last_invoked = NoInvocation
    /\ tool_call = NoCall
    /\ tool_env \in {UsageEnv, CallsEnv}

\* self.agent_permissions.get(agent_id, [])
AgentTools(agent) ==
    IF agent \in DOMAIN agent_permissions THEN agent_permissions[agent] ELSE <<>>

\* a check that lets every level below admin pass
_check_permission_lax(agent, name) == tool_permissions[name] # "admin"

_check_permission(agent, name) ==
    IF (IF tool_permissions[name] = "none" THEN "admin" ELSE tool_permissions[name]) = "public"
    THEN TRUE
    ELSE InSeq(name, AgentTools(agent))

register_tool(name, level) ==
    /\ tools' = tools \cup {name}
    /\ tool_permissions' = [tool_permissions EXCEPT ![name] = level]
    /\ tool_usage' = [tool_usage EXCEPT ![name] = 0]
    /\ tool_call' = Observed(Call("register_tool", "-", <<name>>, "-", {}))
    /\ UNCHANGED <<agent_permissions, execution_history, last_invoked, tool_env>>
    /\ UNCHANGED <<bridgeVars, mgrVars, transportVars, routerVars, convVars, workerVars>>

\* a test that never finds the name in the list
AlreadyGrantedNever(granted, n) == FALSE

\* line 234: tool_name in self.agent_permissions[agent_id]
AlreadyGranted(granted, n) == InSeq(n, granted)

\* a test that takes every name as registered
UnknownToolNever(n) == FALSE

\* line 230: tool_name not in self.tools
UnknownTool(n) == n \notin tools

\* the loop of grant_permission over tool_names
RECURSIVE GrantLoop(_, _)
GrantLoop(granted, names) ==
    IF names = <<>> THEN granted
    ELSE LET n == Head(names) IN
         IF UnknownTool(n) \/ AlreadyGranted(granted, n)
         THEN GrantLoop(granted, Tail(names))
         ELSE GrantLoop(Append(granted, n), Tail(names))

\* list.remove: the first occurrence
RemoveFirst(seq, n) ==
    LET i == CHOOSE j \in 1..Len(seq) : seq[j] = n /\ \A k \in 1..(j - 1) : seq[k] # n
    IN SubSeq(seq, 1, i - 1) \o SubSeq(seq, i + 1, Len(seq))

\* the loop of revoke_permission over tool_names
RECURSIVE RevokeLoop(_, _)
RevokeLoop(granted, names) ==
    IF names = <<>> THEN granted
    ELSE LET n == Head(names) IN
         IF InSeq(n, granted)
         THEN RevokeLoop(RemoveFirst(granted, n), Tail(names))
         ELSE RevokeLoop(granted, Tail(names))

grant_permission(agent, names) ==
    /\ agent_permissions' =
         [a \in DOMAIN agent_permissions \cup {agent} |->
            IF a = agent THEN GrantLoop(AgentTools(agent), names) ELSE agent_permissions[a]]
    /\ tool_call' = Observed(Call("grant_permission", agent, names, "-", {}))
    /\ UNCHANGED <<tools, tool_permissions, tool_usage, execution_history, last_invoked,
                   tool_env>>
    /\ UNCHANGED <<bridgeVars, mgrVars, transportVars, routerVars, convVars, workerVars>>

revoke_permission(agent, names) ==
    /\ agent_permissions' =
         IF agent \notin DOMAIN agent_permissions
         THEN agent_permissions
         ELSE [agent_permissions EXCEPT ![agent] = RevokeLoop(@, names)]
    /\ tool_call' = Observed(Call("revoke_permission", agent, names, "-", {}))
    /\ UNCHANGED <<tools, tool_permissions, tool_usage, execution_history, last_invoked,
                   tool_env>>
    /\ UNCHANGED <<bridgeVars, mgrVars, transportVars, routerVars, convVars, workerVars>>

\* requested_tools: None, or a list of names
RequestedLists == {<<>>} \cup NameLists

\* a lookup that returns every requested name, registered or not
get_tools_for_agent_any(agent, requested_tools) ==
    {n \in ToolNames :
        \/ n \in tools /\ tool_permissions[n] = "public"
        \/ n \in tools /\ InSeq(n, AgentTools(agent))
        \/ InSeq(n, requested_tools)}

\* get_tools_for_agent: the keys of available_tools
get_tools_for_agent(agent, requested_tools) ==
    {n \in tools :
        \/ tool_permissions[n] = "public"
        \/ InSeq(n, AgentTools(agent))
        \/ (requested_tools # <<>> /\ InSeq(n, requested_tools))}

\* one call of get_tools_for_agent
GetTools(agent, requested_tools) ==
    /\ tool_env.observe
    /\ tool_call' = Call("get_tools_for_agent", agent, requested_tools, "-",
                         get_tools_for_agent(agent, requested_tools))
    /\ UNCHANGED <<tools, tool_permissions, agent_permissions, tool_usage,
                   execution_history, last_invoked, tool_env>>
    /\ UNCHANGED <<bridgeVars, mgrVars, transportVars, routerVars, convVars, workerVars>>

\* an execute_tool that refuses unknown names only
RefusalUnknownOnly(name, agent) ==
    IF name \notin tools THEN "not_found" ELSE "-"

\* execute_tool lines 285-297: which of the two refusals is returned ("-": none)
Refusal(name, agent) ==
    IF name \notin tools THEN "not_found"
    ELSE IF ~_check_permission(agent, name) THEN "lacks_permission"
    ELSE "-"

\* a log that keeps its latest entry only
AppendLogLatest(history, entry) == <<entry>>

\* self.execution_history.append(...), lines 324 and 345
AppendLog(history, entry) == Append(history, entry)

\* execute_tool: the two refusals change nothing; otherwise the callable is
\* invoked and returns (ok) or raises, and one log entry is appended
execute_tool(name, agent) ==
    /\ IF Refusal(name, agent) # "-"
       THEN /\ tool_call' = Observed(Call("execute_tool", agent, <<name>>,
                                          Refusal(name, agent), {}))
            /\ UNCHANGED <<tool_usage, execution_history, last_invoked>>
       ELSE /\ Len(execution_history) < tool_env.max_exec
            /\ last_invoked' = [agent |-> agent, tool |-> name,
                                level |-> tool_permissions[name],
                                granted |-> InSeq(name, AgentTools(agent))]
            /\ \E ok \in BOOLEAN :
                 /\ tool_usage' = IF ok THEN [tool_usage EXCEPT ![name] = @ + 1]
                                        ELSE tool_usage
                 /\ execution_history' =
                      AppendLog(execution_history,
                                [tool_name |-> name, agent_id |-> agent, success |-> ok])
                 /\ tool_call' = Observed(Call("execute_tool", agent, <<name>>,
                                               IF ok THEN "ok" ELSE "raised", {}))
    /\ UNCHANGED <<tools, tool_permissions, agent_permissions, tool_env>>
    /\ UNCHANGED <<bridgeVars, mgrVars, transportVars, routerVars, convVars, workerVars>>

NextTools ==
    \/ \E n \in RegNames, l \in RegLevels : register_tool(n, l)
    \/ \E g \in tool_env.grants : grant_permission(g[1], g[2])
    \/ \E g \in tool_env.grants : revoke_permission(g[1], g[2])
    \/ \E n \in ExecNames, a \in tool_env.callers : execute_tool(n, a)

NextToolCalls ==
    \/ \E n \in RegNames, l \in RegLevels : register_tool(n, l)
    \/ \E g \in tool_env.grants : grant_permission(g[1], g[2])
    \/ \E g \in tool_env.grants : revoke_permission(g[1], g[2])
    \/ \E a \in tool_env.callers, ns \in RequestedLists : GetTools(a, ns)
    \/ \E n \in ExecNames, a \in tool_env.callers : execute_tool(n, a)

(***************************************************************************)
(* Router of the manager (agent_manager.py, _route_task).  A description is *)
(* a sequence of characters; keyword in description is Python's substring  *)
(* test.                                                                   *)
(***************************************************************************)
\* str.lower on the letters
LowerChar(ch) ==
    CASE ch = "A" -> "a"
      [] ch = "B" -> "b"
      [] ch = "C" -> "c"
      [] ch = "D" -> "d"
      [] ch = "E" -> "e"
      [] ch = "F" -> "f"
      [] ch = "G" -> "g"
      [] ch = "H" -> "h"
      [] ch = "I" -> "i"
      [] ch = "J" -> "j"
      [] ch = "K" -> "k"
      [] ch = "L" -> "l"
      [] ch = "M" -> "m"
      [] ch = "N" -> "n"
      [] ch = "O" -> "o"
      [] ch = "P" -> "p"
      [] ch = "Q" -> "q"
      [] ch = "R" -> "r"
      [] ch = "S" -> "s"
      [] ch = "T" -> "t"
      [] ch = "U" -> "u"
      [] ch = "V" -> "v"
      [] ch = "W" -> "w"
      [] ch = "X" -> "x"
      [] ch = "Y" -> "y"
      [] ch = "Z" -> "z"
      [] OTHER -> ch

lower(d) == [i \in 1..Len(d) |-> LowerChar(d[i])]

\* keyword in text
Contains(text, keyword) ==
    \E off \in 0..(Len(text) - Len(keyword)) :
        \A j \in 1..Len(keyword) : text[off + j] = keyword[j]

\* any(keyword in text for keyword in keywords)
AnyKeyword(text, keywords) == \E k \in 1..Len(keywords) : Contains(text, keywords[k])

\* _requires_computer_use, lines 408-412
computer_keywords ==
    <<<<"s", "c", "r", "e", "e", "n", "s", "h", "o", "t">>,
      <<"c", "l", "i", "c", "k">>,
      <<"t", "y", "p", "e">>,
      <<"s", "c", "r", "o", "l", "l">>,
      <<"n", "a", "v", "i", "g", "a", "t", "e">>,
      <<"b", "r", "o", "w", "s", "e">>,
      <<"o", "p", "e", "n", " ", "a", "p", "p", "l", "i", "c", "a", "t", "i", "o", "n">>,
      <<"c", "l", "o", "s", "e", " ", "w", "i", "n", "d", "o", "w">>,
      <<"d", "e", "s", "k", "t", "o", "p">>,
      <<"a", "u", "t", "o", "m", "a", "t", "e">>,
      <<"g", "u", "i">>,
      <<"i", "n", "t", "e", "r", "f", "a", "c", "e">>,
      <<"b", "u", "t", "t", "o", "n">>,
      <<"m", "e", "n", "u">>,
      <<"m", "o", "u", "s", "e">>,
      <<"k", "e", "y", "b", "o", "a", "r", "d">>>>

\* lines 376-379
research_keywords ==
    <<<<"s", "e", "a", "r", "c", "h">>,
      <<"r", "e", "s", "e", "a", "r", "c", "h">>,
      <<"f", "i", "n", "d", " ", "i", "n", "f", "o", "r", "m", "a", "t", "i", "o", "n">>,
      <<"l", "o", "o", "k", " ", "u", "p">>,
      <<"i", "n", "v", "e", "s", "t", "i", "g", "a", "t", "e">>,
      <<"g", "a", "t", "h", "e", "r", " ", "d", "a", "t", "a">>,
      <<"f", "a", "c", "t", " ", "c", "h", "e", "c", "k">>,
      <<"w", "e", "b", " ", "s", "e", "a", "r", "c", "h">>,
      <<"c", "u", "r", "r", "e", "n", "t", " ", "e", "v", "e", "n", "t", "s">>>>

\* lines 383-386
vision_keywords ==
    <<<<"i", "m", "a", "g", "e">>,
      <<"p", "i", "c", "t", "u", "r", "e">>,
      <<"s", "c", "r", "e", "e", "n", "s", "h", "o", "t">>,
      <<"v", "i", "s", "u", "a", "l">>,
      <<"a", "n", "a", "l", "y", "z", "e", " ", "i", "m", "a", "g", "e">>,
      <<"o", "c", "r">>,
      <<"c", "o", "m", "p", "u", "t", "e", "r", " ", "v", "i", "s", "i", "o", "n">>,
      <<"d", "e", "s", "c", "r", "i", "b", "e", " ", "i", "m", "a", "g", "e">>>>

\* lines 390-393
code_keywords ==
    <<<<"c", "o", "d", "e">>,
      <<"p", "r", "o", "g", "r", "a", "m">>,
      <<"s", "c", "r", "i", "p", "t">>,
      <<"f", "u", "n", "c", "t", "i", "o", "n">>,
      <<"d", "e", "b", "u", "g">>,
      <<"i", "m", "p", "l", "e", "m", "e", "n", "t">>,
      <<"p", "r", "o", "g", "r", "a", "m", "m", "i", "n", "g">>,
      <<"s", "o", "f", "t", "w", "a", "r", "e">>,
      <<"a", "l", "g", "o", "r", "i", "t", "h", "m">>,
      <<"j", "a", "v", "a", "s", "c", "r", "i", "p", "t">>,
      <<"p", "y", "t", "h", "o", "n">>>>

\* lines 397-400
writing_keywords ==
    <<<<"w", "r", "i", "t", "e">>,
      <<"c", "r", "e", "a", "t", "e", " ", "c", "o", "n", "t", "e", "n", "t">>,
      <<"a", "r", "t", "i", "c", "l", "e">>,
      <<"b", "l", "o", "g">>,
      <<"e", "s", "s", "a", "y">>,
      <<"d", "o", "c", "u", "m", "e", "n", "t", "a", "t", "i", "o", "n">>,
      <<"r", "e", "p", "o", "r", "t">>,
      <<"c", "o", "p", "y">>,
      <<"c", "o", "m", "p", "o", "s", "e">>>>

\* a fallback that moves away from the supervisor once it has completed a task
supervisor_agent_id_by_record ==
    IF mgr_performance["supervisor_cartrita_v2"].tasks_completed > 0 THEN "writer_agent_v2"
    ELSE "supervisor_cartrita_v2"

\* line 94
supervisor_agent_id == "supervisor_cartrita_v2"

_requires_computer_use(task_description) ==
    AnyKeyword(lower(task_description), computer_keywords)

\* a router that looks at the vision keywords before the research keywords
_route_task_vision_first(description) ==
    LET task_description == lower(description) IN
    IF _requires_computer_use(task_description) THEN "computer_use_agent_v2"
    ELSE IF AnyKeyword(task_description, vision_keywords) THEN "vision_agent_v2"
    ELSE IF AnyKeyword(task_description, research_keywords) THEN "research_agent_v2"
    ELSE IF AnyKeyword(task_description, code_keywords) THEN "code_writer_agent_v2"
    ELSE IF AnyKeyword(task_description, writing_keywords) THEN "writer_agent_v2"
    ELSE supervisor_agent_id

_route_task(description) ==
    LET task_description == lower(description) IN
    IF _requires_computer_use(task_description) THEN "computer_use_agent_v2"
    ELSE IF AnyKeyword(task_description, research_keywords) THEN "research_agent_v2"
    ELSE IF AnyKeyword(task_description, vision_keywords) THEN "vision_agent_v2"
    ELSE IF AnyKeyword(task_description, code_keywords) THEN "code_writer_agent_v2"
    ELSE IF AnyKeyword(task_description, writing_keywords) THEN "writer_agent_v2"
    ELSE supervisor_agent_id

\* the pieces descriptions are put together from
Fragments ==
    {<<"S", "c", "r", "e", "e", "n">>,
     <<"s", "h", "o", "t">>,
     <<"S", "E", "A", "R", "C", "H">>,
     <<"i", "m", "a", "g", "e">>,
     <<"C", "o", "d", "e">>,
     <<"w", "r", "i", "t", "e">>,
     <<"t", "y", "p">>,
     <<"e">>,
     <<" ", "m", "y", " ", "w", "e", "e", "k">>,
     <<"c", "o", "p">>,
     <<"y", " ", "t", "h", "e", " ", "f", "i", "l", "e", " ">>}

DescribeCode ==
    <<"P", "l", "e", "a", "s", "e", " ", "w", "r", "i", "t", "e", " ", "a", " ", "p",
      "y", "t", "h", "o", "n", " ", "s", "c", "r", "i", "p", "t", " ", "t", "o", " ",
      "s", "o", "r", "t", " ", "a", " ", "l", "i", "s", "t">>

DescribeDesktop ==
    <<"T", "a", "k", "e", " ", "a", " ", "s", "c", "r", "e", "e", "n", "s", "h", "o",
      "t", " ", "o", "f", " ", "t", "h", "e", " ", "c", "u", "r", "r", "e", "n", "t",
      " ", "d", "e", "s", "k", "t", "o", "p">>

DescribeWeek ==
    <<"S", "u", "m", "m", "a", "r", "i", "z", "e", " ", "m", "y", " ", "w", "e", "e",
      "k">>

DescribeResearch ==
    <<"r", "e", "s", "e", "a", "r", "c", "h", " ", "t", "h", "e", " ", "C", "V", "E",
      " ", "f", "e", "e", "d">>

\* the descriptions the router is tried with: up to three fragments in
\* a row, and four whole sentences
Descriptions ==
    {<<>>} \cup Fragments
      \cup {f \o g : f \in Fragments, g \in Fragments}
      \cup {f \o g \o h : f \in Fragments, g \in Fragments, h \in Fragments}
      \cup {DescribeCode, DescribeDesktop, DescribeWeek, DescribeResearch}

InitRouter ==
    /\ rt_description \in Descriptions
    /\ rt_chosen = "pending"

\* one call of _route_task
RouteTask ==
    /\ UNCHANGED <<bridgeVars, toolVars, mgrVars, transportVars, convVars, workerVars>>
    /\ rt_chosen = "pending"
    /\ rt_chosen' = _route_task(rt_description)
    /\ UNCHANGED rt_description

NextRouter == RouteTask

(***************************************************************************)
(* In-process manager (cartrita_core/agent_manager.py).  execute_task puts *)
(* the task into active_tasks, chooses the worker, awaits the worker's     *)
(* execute_task, records the outcome, and removes the task in its finally  *)
(* block.  max_concurrent_tasks is stored by __init__ and read nowhere.    *)
(* The pool is empty until _initialize_default_agents, scheduled by        *)
(* __init__, has run.  mgr_env describes the callers of a run: how many    *)
(* calls they make, with which descriptions and preferences, and how the   *)
(* workers answer.                                                         *)
(***************************************************************************)
DefaultAgents ==
    {"supervisor_cartrita_v2", "research_agent_v2", "writer_agent_v2", "vision_agent_v2",
     "computer_use_agent_v2", "code_writer_agent_v2"}

\* preferred_agent: None, a worker of the pool, an id the pool never holds
NoPreferred == ""
PreferredAgents == {NoPreferred, "writer_agent_v2", "ghost_agent"}
MgrDescriptions == {DescribeCode, DescribeWeek, DescribeResearch}

\* callers that load the manager, and callers that vary what they ask for
LoadCallers ==
    [limit |-> MaxMgrTasks, descriptions |-> {DescribeWeek}, preferred |-> {NoPreferred},
     outcomes |-> {"success"}, creates |-> 0, shutdowns |-> 0]
RouteCallers ==
    [limit |-> MaxRouted, descriptions |-> MgrDescriptions, preferred |-> PreferredAgents,
     outcomes |-> {"success", "failure", "raise"}, creates |-> MaxCreates, shutdowns |-> 0]

\* callers that also shut workers down
PoolCallers ==
    [limit |-> MaxPoolTasks, descriptions |-> {DescribeCode, DescribeWeek},
     preferred |-> {NoPreferred}, outcomes |-> {"success", "failure"},
     creates |-> MaxCreates, shutdowns |-> MaxShutdowns]

\* the workers shutdown_agent is called for: one a keyword rule names, and the
\* supervisor
ShutdownIds == {"code_writer_agent_v2", "supervisor_cartrita_v2"}

NoResult == "none"

NoAssignment == [agent |-> NoAgent, description |-> <<>>]
NoRouting == [description |-> <<>>, preferred |-> NoPreferred, agent |-> NoAgent,
              pool |-> {}]

\* the ids create_agent is called with from outside: one that
\* _initialize_default_agents also creates, one that it does not
CreateIds == {"research_agent_v2", "ghost_agent"}
AgentIds == DefaultAgents \cup CreateIds

\* no entry in agent_performance / agent_configs
NoRecord == [tasks_completed |-> -1, success_rate |-> -1]
NoConfig == "-"
NoCreate == [n |-> 0, agent_id |-> NoAgent, raised |-> FALSE]

\* success rates are kept as multiples of 1 / RateOne; RateOne is 1.0.  Up
\* to MaxRouted updates of a rate that starts at 1.0 are exact in this unit.
RateOne == 10 ^ MaxRouted

\* alpha = 0.1, in tenths
AlphaTenths == 1

\* lines 285-290
FreshRecord == [tasks_completed |-> 0, success_rate |-> RateOne]

InitManager ==
    /\ mgr_active_tasks = {}
    /\ mgr_issued = 0
    /\ mgr_agents = {}
    /\ mgr_agent_configs = [a \in AgentIds |-> NoConfig]
    /\ mgr_assigned = [id \in 1..MaxMgrTasks |-> NoAssignment]
    /\ mgr_performance = [a \in AgentIds |-> NoRecord]
    /\ mgr_delegation_history = <<>>
    /\ mgr_last = NoRouting
    /\ mgr_created = NoCreate
    /\ mgr_init_done = FALSE
    /\ mgr_task_results = [id \in 1..MaxMgrTasks |-> NoResult]
    /\ mgr_shut = 0
    /\ mgr_env \in {LoadCallers, RouteCallers, PoolCallers}

\* a create_agent that replaces the worker of an id it already has
create_agent_replace(pool, agent_id, config) ==
    [agents |-> pool.agents \cup {agent_id},
     agent_configs |-> [pool.agent_configs EXCEPT ![agent_id] = config],
     agent_performance |-> [pool.agent_performance EXCEPT ![agent_id] = FreshRecord],
     raised |-> FALSE]

\* create_agent on the pool (agents, agent_configs, agent_performance);
\* raised: the call ended with ValueError
create_agent(pool, agent_id, config) ==
    IF agent_id \in pool.agents
    THEN [pool EXCEPT !.raised = TRUE]
    ELSE [agents |-> pool.agents \cup {agent_id},
          agent_configs |-> [pool.agent_configs EXCEPT ![agent_id] = config],
          agent_performance |-> [pool.agent_performance EXCEPT ![agent_id] = FreshRecord],
          raised |-> FALSE]

\* the create_agent calls of _initialize_default_agents, in order: id and
\* where the model name of the config comes from
DefaultCreates ==
    <<[agent_id |-> "supervisor_cartrita_v2", config |-> "get_model_for_agent"],
      [agent_id |-> "research_agent_v2", config |-> "get_model_for_agent"],
      [agent_id |-> "writer_agent_v2", config |-> "get_model_for_agent"],
      [agent_id |-> "vision_agent_v2", config |-> "get_model_for_agent"],
      [agent_id |-> "computer_use_agent_v2", config |-> "get_model_for_agent"],
      [agent_id |-> "code_writer_agent_v2", config |-> "get_model_for_agent"],
      [agent_id |-> "research_agent_v2", config |-> "gpt-4o"],
      [agent_id |-> "writer_agent_v2", config |-> "gpt-4o"],
      [agent_id |-> "vision_agent_v2", config |-> "gpt-4o"],
      [agent_id |-> "computer_use_agent_v2", config |-> "gpt-4o-mini"],
      [agent_id |-> "code_writer_agent_v2", config |-> "gpt-4o"]>>

\* the calls from the i-th on; the first ValueError ends the activity
RECURSIVE CreateFrom(_, _)
CreateFrom(pool, i) ==
    IF i > Len(DefaultCreates) \/ pool.raised THEN pool
    ELSE CreateFrom(create_agent(pool, DefaultCreates[i].agent_id, DefaultCreates[i].config),
                    i + 1)

CurrentPool ==
    [agents |-> mgr_agents, agent_configs |-> mgr_agent_configs,
     agent_performance |-> mgr_performance, raised |-> FALSE]

\* _initialize_default_agents after its sleep; nothing suspends in create_agent
MgrInitAgents ==
    /\ ~mgr_init_done
    /\ mgr_init_done' = TRUE
    /\ LET pool == CreateFrom(CurrentPool, 1) IN
         /\ mgr_agents' = pool.agents
         /\ mgr_agent_configs' = pool.agent_configs
         /\ mgr_performance' = pool.agent_performance
    /\ UNCHANGED <<mgr_active_tasks, mgr_issued, mgr_assigned, mgr_delegation_history,
                   mgr_last, mgr_created, mgr_env, mgr_task_results, mgr_shut>>
    /\ UNCHANGED <<bridgeVars, toolVars, transportVars, routerVars, convVars, workerVars>>

\* create_agent called from outside
MgrCreateAgent(agent_id) ==
    /\ mgr_created.n < mgr_env.creates
    /\ LET pool == create_agent(CurrentPool, agent_id, "caller") IN
         /\ mgr_agents' = pool.agents
         /\ mgr_agent_configs' = pool.agent_configs
         /\ mgr_performance' = pool.agent_performance
         /\ mgr_created' = [n |-> mgr_created.n + 1, agent_id |-> agent_id,
                            raised |-> pool.raised]
    /\ UNCHANGED <<mgr_active_tasks, mgr_issued, mgr_assigned, mgr_delegation_history,
                   mgr_last, mgr_init_done, mgr_env, mgr_task_results, mgr_shut>>
    /\ UNCHANGED <<bridgeVars, toolVars, transportVars, routerVars, convVars, workerVars>>

\* a manager that lets the keyword rules overrule the preferred worker
AssignAgentKeywordsFirst(description, preferred_agent) ==
    IF _route_task(description) # supervisor_agent_id THEN _route_task(description)
    ELSE IF preferred_agent # NoPreferred /\ preferred_agent \in mgr_agents
    THEN preferred_agent
    ELSE supervisor_agent_id

\* lines 319-322
AssignAgent(description, preferred_agent) ==
    IF preferred_agent # NoPreferred /\ preferred_agent \in mgr_agents
    THEN preferred_agent
    ELSE _route_task(description)

\* description[:100]
Truncate(description) ==
    SubSeq(description, 1,
           IF Len(description) < HistoryDescriptionLimit THEN Len(description)
                                                         ELSE HistoryDescriptionLimit)

\* an update that adds the new sample to the old rate
SuccessRateSum(old, success) ==
    (AlphaTenths * (IF success THEN RateOne ELSE 0)) \div 10 + old

\* lines 433-435: alpha * current_success + (1 - alpha) * perf["success_rate"]
SuccessRateEMA(old, success) ==
    (AlphaTenths * (IF success THEN RateOne ELSE 0) + (10 - AlphaTenths) * old) \div 10

\* an update that counts the task for every worker of the pool
_update_agent_performance_all(performance, agent_id, success) ==
    [a \in AgentIds |->
        IF performance[a] = NoRecord THEN performance[a]
        ELSE [tasks_completed |-> performance[a].tasks_completed + 1,
              success_rate |-> SuccessRateEMA(performance[a].success_rate, success)]]

\* _update_agent_performance, on agent_performance
_update_agent_performance(performance, agent_id, success) ==
    IF performance[agent_id] = NoRecord THEN performance
    ELSE [performance EXCEPT
            ![agent_id] = [tasks_completed |-> @.tasks_completed + 1,
                           success_rate |-> SuccessRateEMA(@.success_rate, success)]]

\* lines 304-328: a fresh task id enters active_tasks, the worker is chosen
\* and its execute_task awaited; a chosen id that is not in the pool raises
\* KeyError, and the except and finally blocks end the call at once
MgrExecuteBegin ==
    /\ mgr_issued < mgr_env.limit
    /\ mgr_issued' = mgr_issued + 1
    /\ \E d \in mgr_env.descriptions, p \in mgr_env.preferred :
         LET assigned_agent_id == AssignAgent(d, p) IN
         /\ mgr_last' = [description |-> d, preferred |-> p, agent |-> assigned_agent_id,
                         pool |-> mgr_agents]
         /\ IF assigned_agent_id \in mgr_agents
            THEN /\ mgr_active_tasks' = mgr_active_tasks \cup {mgr_issued + 1}
                 /\ mgr_assigned' = [mgr_assigned EXCEPT ![mgr_issued + 1] =
                                    [agent |-> assigned_agent_id, description |-> d]]
                 /\ UNCHANGED mgr_task_results
            ELSE /\ mgr_task_results' = [mgr_task_results EXCEPT ![mgr_issued + 1] = "error"]
                 /\ UNCHANGED <<mgr_active_tasks, mgr_assigned>>
    /\ UNCHANGED <<mgr_agents, mgr_agent_configs, mgr_performance, mgr_delegation_history,
                   mgr_created, mgr_init_done, mgr_env, mgr_shut>>
    /\ UNCHANGED <<bridgeVars, toolVars, transportVars, routerVars, convVars, workerVars>>

\* lines 328-365: the worker's execute_task returns a response (success or
\* not) or raises; the response, or the error response of the except block,
\* is stored and returned, and the finally block removes the task
MgrExecuteEnd(id) ==
    /\ mgr_assigned[id] # NoAssignment
    /\ mgr_active_tasks' = mgr_active_tasks \ {id}
    /\ mgr_assigned' = [mgr_assigned EXCEPT ![id] = NoAssignment]
    /\ \E outcome \in mgr_env.outcomes :
         IF outcome = "raise"
         THEN /\ mgr_task_results' = [mgr_task_results EXCEPT ![id] = "error"]
              /\ UNCHANGED <<mgr_performance, mgr_delegation_history>>
         ELSE /\ mgr_task_results' = [mgr_task_results EXCEPT ![id] = outcome]
              /\ mgr_performance' =
                   _update_agent_performance(mgr_performance, mgr_assigned[id].agent,
                                             outcome = "success")
              /\ mgr_delegation_history' =
                   Append(mgr_delegation_history,
                          [description |-> Truncate(mgr_assigned[id].description),
                           assigned_agent |-> mgr_assigned[id].agent,
                           success |-> outcome = "success"])
    /\ UNCHANGED <<mgr_issued, mgr_agents, mgr_agent_configs, mgr_last, mgr_created,
                   mgr_init_done, mgr_env, mgr_shut>>
    /\ UNCHANGED <<bridgeVars, toolVars, transportVars, routerVars, convVars, workerVars>>

\* shutdown_agent: agent.shutdown() does not suspend; an id that is not in
\* the pool returns False
shutdown_agent(agent_id) ==
    /\ mgr_shut < mgr_env.shutdowns
    /\ mgr_shut' = mgr_shut + 1
    /\ IF agent_id \in mgr_agents
       THEN /\ mgr_agents' = mgr_agents \ {agent_id}
            /\ mgr_agent_configs' = [mgr_agent_configs EXCEPT ![agent_id] = NoConfig]
            /\ mgr_performance' = [mgr_performance EXCEPT ![agent_id] = NoRecord]
       ELSE UNCHANGED <<mgr_agents, mgr_agent_configs, mgr_performance>>
    /\ UNCHANGED <<mgr_active_tasks, mgr_issued, mgr_assigned, mgr_delegation_history,
                   mgr_last, mgr_created, mgr_init_done, mgr_env, mgr_task_results>>
    /\ UNCHANGED <<bridgeVars, toolVars, transportVars, routerVars, convVars, workerVars>>

\* shutdown_all, after its gather: the four dicts are cleared
shutdown_all ==
    /\ mgr_shut < mgr_env.shutdowns
    /\ mgr_shut' = mgr_shut + 1
    /\ mgr_agents' = {}
    /\ mgr_agent_configs' = [a \in AgentIds |-> NoConfig]
    /\ mgr_performance' = [a \in AgentIds |-> NoRecord]
    /\ mgr_active_tasks' = {}
    /\ UNCHANGED <<mgr_issued, mgr_assigned, mgr_delegation_history, mgr_last,
                   mgr_created, mgr_init_done, mgr_env, mgr_task_results>>
    /\ UNCHANGED <<bridgeVars, toolVars, transportVars, routerVars, convVars, workerVars>>

NextManager ==
    \/ MgrInitAgents
    \/ \E agent_id \in CreateIds : MgrCreateAgent(agent_id)
    \/ MgrExecuteBegin
    \/ \E id \in 1..MaxMgrTasks : MgrExecuteEnd(id)
    \/ \E agent_id \in ShutdownIds : shutdown_agent(agent_id)
    \/ shutdown_all

(***************************************************************************)
(* Framed transport (src/py/mcp_core/transport/unix_socket.py).  Two        *)
(* UnixSocketConnection objects are modelled: "srv", made by the server in  *)
(* _handle_connection, and "cli", made by the client in connect.  Server   *)
(* and client are two processes; a run follows one of them.  The peer is    *)
(* arbitrary: what a receive loop reads is drawn when it reads.             *)
(* A frame on the wire is two chunks, its length header and its body.       *)
(* Validation and msgpack packing of an outgoing message succeed or raise;  *)
(* which one is an input of the send.                                       *)
(***************************************************************************)
InitTransport ==
    /\ _clients = {}
    /\ conn_running = [c \in Conns |-> FALSE]
    /\ rpc = [c \in Conns |-> "none"]
    /\ cur = [c \in Conns |-> NoFrame]
    /\ nframes = [c \in Conns |-> 0]
    /\ delivered = [c \in Conns |-> <<>>]
    /\ body_reads = [c \in Conns |-> {}]
    /\ wire = [c \in Conns |-> <<>>]
    /\ tickets = [c \in Conns |-> 0]
    /\ snd = [c \in Conns |-> [s \in Senders |-> [pc |-> "idle", later |-> <<>>]]]
    /\ loop_later = [c \in Conns |-> <<>>]
    /\ wclosed = [c \in Conns |-> FALSE]
    /\ _connected = FALSE
    /\ _connection = FALSE
    /\ cpc = "idle"

\* a message as the receive loop validates it: frame n of a connection
Request(n, mtype) ==
    [id |-> [prefix |-> "", of |-> n], correlation_id |-> NoCorrelation,
     trace_id |-> <<"trace", n>>, span_id |-> <<"span", n>>,
     sender |-> "peer", recipient |-> "server", message_type |-> mtype,
     status |-> NoStatus, error_code |-> NoCode,
     context |-> [request_id |-> n, client_id |-> NoClient],
     delivery |-> [priority |-> n]]

\* a message an application activity sends
AppMessage(s) ==
    [id |-> [prefix |-> s, of |-> 0], correlation_id |-> NoCorrelation,
     trace_id |-> <<"trace", 0>>, span_id |-> <<"span", 0>>,
     sender |-> s, recipient |-> "peer", message_type |-> "HEARTBEAT",
     status |-> NoStatus, error_code |-> NoCode,
     context |-> [request_id |-> 0, client_id |-> NoClient],
     delivery |-> [priority |-> 0]]

\* _dispatch_message line 182: message.context.metadata["client_id"] = client_id
Annotate(m, c) == [m EXCEPT !.context.client_id = c]

\* an error response that keeps the request's sender and recipient
_create_error_response_unswapped(m) ==
    [id |-> [prefix |-> "error_", of |-> m.id.of], correlation_id |-> m.id,
     trace_id |-> m.trace_id, span_id |-> m.span_id,
     sender |-> m.sender, recipient |-> m.recipient,
     message_type |-> "TASK_RESPONSE", status |-> "FAILED",
     error_code |-> "INTERNAL_ERROR", context |-> m.context, delivery |-> m.delivery]

\* BaseMCPTransport._create_error_response
_create_error_response(m) ==
    [id |-> [prefix |-> "error_", of |-> m.id.of], correlation_id |-> m.id,
     trace_id |-> m.trace_id, span_id |-> m.span_id,
     sender |-> m.recipient, recipient |-> m.sender,
     message_type |-> "TASK_RESPONSE", status |-> "FAILED",
     error_code |-> "INTERNAL_ERROR", context |-> m.context, delivery |-> m.delivery]

Chunk(part, f) == [part |-> part, frame |-> f]

\* a send that writes the header, drains, and then writes the body
SendPlanSplit(f) == [now |-> <<Chunk("hdr", f)>>, later |-> <<Chunk("body", f)>>]

\* send_message lines 359-361: one write of length_header + data, then drain
SendPlan(f) == [now |-> <<Chunk("hdr", f), Chunk("body", f)>>, later |-> <<>>]

\* a read of the body even when no byte is asked for
_read_exactly_eager(n, eof) ==
    [data |-> IF n = 0 \/ eof THEN 0 ELSE n, reads |-> 1]

\* _read_exactly: the number of bytes returned (0: b'') and whether
\* reader.read was called; with n = 0 the while loop is not entered
_read_exactly(n, eof) ==
    [data |-> IF n = 0 \/ eof THEN 0 ELSE n, reads |-> IF n = 0 THEN 0 ELSE 1]

\* an inner except branch that gives up the connection
InnerExceptBreak == "ended"

\* lines 418-421: the inner except logs; the while loop goes on
InnerExcept == "header"

\* a size check that lets every length pass
TooLargeNever(length) == FALSE

\* line 384
TooLarge(length) == length > max_message_size

\* asyncio.start_unix_server calls _handle_connection: the connection enters
\* the table and start() runs the receive loop
ServerAccept ==
    /\ UNCHANGED <<bridgeVars, toolVars, mgrVars, routerVars, convVars, workerVars, followed>>
    /\ followed = "srv"
    /\ rpc["srv"] = "none"
    /\ _clients' = _clients \cup {"srv"}
    /\ conn_running' = [conn_running EXCEPT !["srv"] = TRUE]
    /\ rpc' = [rpc EXCEPT !["srv"] = "header"]
    /\ UNCHANGED <<cur, nframes, delivered, body_reads, wire, tickets, snd, loop_later,
                   wclosed, _connected, _connection, cpc>>

\* MCPUnixSocketClient.connect up to its await of connection.start(), which
\* awaits the receive task
ClientConnect ==
    /\ UNCHANGED <<bridgeVars, toolVars, mgrVars, routerVars, convVars, workerVars, followed>>
    /\ followed = "cli"
    /\ cpc \in {"idle", "failed"}
    /\ rpc["cli"] = "none"
    /\ ~_connected
    /\ \E ok \in BOOLEAN :
         IF ok
         THEN /\ _connection' = TRUE
              /\ conn_running' = [conn_running EXCEPT !["cli"] = TRUE]
              /\ rpc' = [rpc EXCEPT !["cli"] = "header"]
              /\ cpc' = "starting"
         ELSE \* open_unix_connection fails or times out: connect raises
              /\ cpc' = "failed"
              /\ UNCHANGED <<_connection, conn_running, rpc>>
    /\ UNCHANGED <<_clients, cur, nframes, delivered, body_reads, wire, tickets, snd,
                   loop_later, wclosed, _connected>>

\* the receive task is over: start() returns and connect sets _connected
ConnectReturn ==
    /\ UNCHANGED <<bridgeVars, toolVars, mgrVars, routerVars, convVars, workerVars, followed>>
    /\ followed = "cli"
    /\ cpc = "starting"
    /\ rpc["cli"] = "ended"
    /\ _connected' = TRUE
    /\ cpc' = "returned"
    /\ UNCHANGED <<_clients, conn_running, rpc, cur, nframes, delivered, body_reads,
                   wire, tickets, snd, loop_later, wclosed, _connection>>

\* UnixSocketConnection.close: the receive task is cancelled and awaited,
\* the writer is closed
CloseConn(c) ==
    /\ conn_running' = [conn_running EXCEPT ![c] = FALSE]
    /\ rpc' = [rpc EXCEPT ![c] = "ended"]
    /\ loop_later' = [loop_later EXCEPT ![c] = <<>>]
    /\ wclosed' = [wclosed EXCEPT ![c] = TRUE]

\* MCPUnixSocketClient.disconnect
ClientDisconnect ==
    /\ UNCHANGED <<bridgeVars, toolVars, mgrVars, routerVars, convVars, workerVars, followed>>
    /\ followed = "cli"
    /\ _connection \/ _connected
    /\ IF _connection
       THEN CloseConn("cli")
       ELSE UNCHANGED <<conn_running, rpc, loop_later, wclosed>>
    /\ _connection' = FALSE
    /\ _connected' = FALSE
    /\ UNCHANGED <<_clients, cur, nframes, delivered, body_reads, wire, tickets, snd, cpc>>

\* _handle_connection's finally, once start() has returned
ConnectionCleanup ==
    /\ UNCHANGED <<bridgeVars, toolVars, mgrVars, routerVars, convVars, workerVars, followed>>
    /\ followed = "srv"
    /\ rpc["srv"] = "ended"
    /\ "srv" \in _clients
    /\ CloseConn("srv")
    /\ _clients' = _clients \ {"srv"}
    /\ UNCHANGED <<cur, nframes, delivered, body_reads, wire, tickets, snd,
                   _connected, _connection, cpc>>

\* _receive_loop lines 375-385: the length header
ReadHeader(c) ==
    /\ UNCHANGED <<bridgeVars, toolVars, mgrVars, routerVars, convVars, workerVars, followed>>
    /\ followed = c
    /\ rpc[c] = "header"
    /\ conn_running[c]
    /\ nframes[c] < MaxFrames
    /\ \E eof \in BOOLEAN, length \in Lengths :
         LET n == nframes[c] + 1 IN
         IF _read_exactly(HeaderSize, eof).data = 0
         THEN \* connection closed by the peer: break
              /\ rpc' = [rpc EXCEPT ![c] = "ended"]
              /\ UNCHANGED <<cur, nframes, body_reads>>
         ELSE /\ nframes' = [nframes EXCEPT ![c] = n]
              /\ IF TooLarge(length)
                 THEN \* raise UnixSocketTransportError, caught by the outer except: break
                      /\ cur' = [cur EXCEPT ![c] = [NoFrame EXCEPT !.n = n, !.length = length,
                                                                 !.kind = "too_large"]]
                      /\ rpc' = [rpc EXCEPT ![c] = "ended"]
                      /\ UNCHANGED body_reads
                 ELSE IF _read_exactly(length, FALSE).reads = 0
                 THEN \* nothing to await: b'' comes back at once, break
                      /\ cur' = [cur EXCEPT ![c] = [NoFrame EXCEPT !.n = n, !.length = length,
                                                                 !.kind = "empty"]]
                      /\ rpc' = [rpc EXCEPT ![c] =
                                   IF _read_exactly(length, FALSE).data = 0 THEN "ended"
                                                                            ELSE "body"]
                      /\ UNCHANGED body_reads
                 ELSE /\ cur' = [cur EXCEPT ![c] = [NoFrame EXCEPT !.n = n, !.length = length,
                                                                 !.kind = "header"]]
                      /\ rpc' = [rpc EXCEPT ![c] = "body"]
                      /\ body_reads' = [body_reads EXCEPT ![c] = @ \cup {n}]
    /\ UNCHANGED <<_clients, conn_running, delivered, wire, tickets, snd, loop_later,
                   wclosed, _connected, _connection, cpc>>

\* UnixSocketConnection.send_message by the receive loop itself (the error
\* response of _dispatch_message); ser: validation and packing succeed
LoopSend(c, m, ser) ==
    IF ser /\ ~wclosed[c]
    THEN LET plan == SendPlan([n |-> tickets[c] + 1, by |-> "loop", msg |-> m]) IN
         /\ wire' = [wire EXCEPT ![c] = @ \o plan.now]
         /\ loop_later' = [loop_later EXCEPT ![c] = plan.later]
         /\ rpc' = [rpc EXCEPT ![c] = "drain"]
    ELSE \* UnixSocketTransportError reaches the loop's inner except
         /\ rpc' = [rpc EXCEPT ![c] = InnerExcept]
         /\ UNCHANGED <<wire, loop_later>>

\* _receive_loop lines 388-421: the body, deserialization, validation and the
\* handler.  For "srv" the handler is _handle_client_message and
\* _dispatch_message; for "cli" it is _handle_server_message.
ReadBody(c) ==
    /\ UNCHANGED <<bridgeVars, toolVars, mgrVars, routerVars, convVars, workerVars, followed>>
    /\ followed = c
    /\ rpc[c] = "body"
    /\ \E eof \in BOOLEAN, kind \in BodyKinds, mtype \in MessageTypes,
          fails \in BOOLEAN, ser \in BOOLEAN :
         IF _read_exactly(cur[c].length, eof).data = 0
         THEN \* short read: break
              /\ cur' = [cur EXCEPT ![c].kind = "short"]
              /\ rpc' = [rpc EXCEPT ![c] = "ended"]
              /\ UNCHANGED <<delivered, wire, tickets, loop_later>>
         ELSE IF kind # "valid"
         THEN \* unpackb or validation raises
              /\ cur' = [cur EXCEPT ![c].kind = kind]
              /\ rpc' = [rpc EXCEPT ![c] = InnerExcept]
              /\ UNCHANGED <<delivered, wire, tickets, loop_later>>
         ELSE LET m == Annotate(Request(cur[c].n, mtype), IF c = "srv" THEN c ELSE NoClient)
                  respond == c = "srv" /\ fails /\ mtype = "TASK_REQUEST" /\ c \in _clients
              IN
              /\ delivered' = [delivered EXCEPT ![c] = Append(@, cur[c].n)]
              /\ cur' = [cur EXCEPT ![c].kind = "valid", ![c].mtype = mtype,
                                    ![c].fails = fails, ![c].packed = respond /\ ser]
              /\ IF respond
                 THEN /\ tickets' = [tickets EXCEPT ![c] = @ + 1]
                      /\ LoopSend(c, _create_error_response(m), ser)
                 ELSE /\ rpc' = [rpc EXCEPT ![c] = "header"]
                      /\ UNCHANGED <<wire, tickets, loop_later>>
    /\ UNCHANGED <<_clients, conn_running, nframes, body_reads, snd, wclosed,
                   _connected, _connection, cpc>>

\* the receive loop's send comes back from writer.drain()
LoopDrain(c) ==
    /\ UNCHANGED <<bridgeVars, toolVars, mgrVars, routerVars, convVars, workerVars, followed>>
    /\ followed = c
    /\ rpc[c] = "drain"
    /\ wire' = [wire EXCEPT ![c] = @ \o loop_later[c]]
    /\ loop_later' = [loop_later EXCEPT ![c] = <<>>]
    /\ rpc' = [rpc EXCEPT ![c] = "header"]
    /\ UNCHANGED <<_clients, conn_running, cur, nframes, delivered, body_reads, tickets,
                   snd, wclosed, _connected, _connection, cpc>>

\* UnixSocketConnection.send_message called by activity s, up to the drain
ConnSend(c, s) ==
    /\ snd[c][s].pc = "idle"
    /\ tickets[c] < MaxSends
    /\ tickets' = [tickets EXCEPT ![c] = @ + 1]
    /\ \E ser \in BOOLEAN :
         IF ser /\ ~wclosed[c]
         THEN LET plan == SendPlan([n |-> tickets[c] + 1, by |-> s, msg |-> AppMessage(s)]) IN
              /\ wire' = [wire EXCEPT ![c] = @ \o plan.now]
              /\ snd' = [snd EXCEPT ![c][s] = [pc |-> "drain", later |-> plan.later]]
         ELSE UNCHANGED <<wire, snd>>

\* MCPUnixSocketServer.send_message(message, client_id)
ServerSend(s) ==
    /\ UNCHANGED <<bridgeVars, toolVars, mgrVars, routerVars, convVars, workerVars, followed>>
    /\ followed = "srv"
    /\ IF "srv" \in _clients
       THEN ConnSend("srv", s)
       ELSE \* Client not found
            UNCHANGED <<wire, tickets, snd>>
    /\ UNCHANGED <<_clients, conn_running, rpc, cur, nframes, delivered, body_reads,
                   loop_later, wclosed, _connected, _connection, cpc>>

\* MCPUnixSocketClient.send_message
ClientSend(s) ==
    /\ UNCHANGED <<bridgeVars, toolVars, mgrVars, routerVars, convVars, workerVars, followed>>
    /\ followed = "cli"
    /\ IF _connected /\ _connection
       THEN ConnSend("cli", s)
       ELSE \* Not connected to server
            UNCHANGED <<wire, tickets, snd>>
    /\ UNCHANGED <<_clients, conn_running, rpc, cur, nframes, delivered, body_reads,
                   loop_later, wclosed, _connected, _connection, cpc>>

\* activity s comes back from writer.drain()
SendDrain(c, s) ==
    /\ UNCHANGED <<bridgeVars, toolVars, mgrVars, routerVars, convVars, workerVars, followed>>
    /\ followed = c
    /\ snd[c][s].pc = "drain"
    /\ wire' = [wire EXCEPT ![c] = @ \o snd[c][s].later]
    /\ snd' = [snd EXCEPT ![c][s] = [pc |-> "idle", later |-> <<>>]]
    /\ UNCHANGED <<_clients, conn_running, rpc, cur, nframes, delivered, body_reads,
                   tickets, loop_later, wclosed, _connected, _connection, cpc>>

NextTransport ==
    \/ ServerAccept
    \/ ClientConnect
    \/ ConnectReturn
    \/ ClientDisconnect
    \/ ConnectionCleanup
    \/ \E c \in Conns : ReadHeader(c)
    \/ \E c \in Conns : ReadBody(c)
    \/ \E c \in Conns : LoopDrain(c)
    \/ \E s \in Senders : ServerSend(s)
    \/ \E s \in Senders : ClientSend(s)
    \/ \E c \in Conns, s \in Senders : SendDrain(c, s)

\* no _route_task call is being followed
RouterIdle ==
    /\ rt_description = <<>>
    /\ rt_chosen = "pending"

StoreIdle ==
    /\ InitConversations
    /\ max_conversations = MaxConversations

Init ==
    /\ InitWorker /\ InitBridge /\ bridge_env = TaskEnv /\ StoreIdle
    /\ InitTools /\ tool_env = UsageEnv
    /\ InitManager
    /\ mgr_env = LoadCallers
    /\ InitTransport
    /\ followed = "srv"
    /\ RouterIdle

InitDescriptions ==
    /\ InitWorker /\ InitBridge /\ bridge_env = TaskEnv /\ StoreIdle /\ InitTools /\ tool_env = UsageEnv
    /\ InitManager /\ mgr_env = LoadCallers
    /\ InitTransport /\ followed = "srv"
    /\ InitRouter

SpecRouter == InitDescriptions /\ [][NextRouter]_vars

InitProcesses ==
    /\ InitWorker /\ InitBridge /\ bridge_env = TaskEnv /\ StoreIdle /\ InitTools /\ tool_env = UsageEnv
    /\ InitManager /\ mgr_env = LoadCallers /\ RouterIdle
    /\ InitTransport
    /\ followed \in Conns

SpecTransport == InitProcesses /\ [][NextTransport]_vars

\* the event loop resumes whatever waits for a finished receive task or drain
FairSpecTransport ==
    /\ InitProcesses
    /\ [][NextTransport]_vars
    /\ WF_vars(ConnectionCleanup)
    /\ WF_vars(ConnectReturn)
    /\ \A c \in Conns : WF_vars(LoopDrain(c))
    /\ \A c \in Conns, s \in Senders : WF_vars(SendDrain(c, s))

SpecTools == Init /\ [][NextTools]_vars

InitToolCalls ==
    /\ InitWorker /\ InitBridge /\ bridge_env = TaskEnv /\ StoreIdle /\ InitTools /\ tool_env = CallsEnv
    /\ InitManager /\ mgr_env = LoadCallers
    /\ InitTransport /\ followed = "srv"
    /\ RouterIdle

SpecToolCalls == InitToolCalls /\ [][NextToolCalls]_vars

InitCallers ==
    /\ InitWorker /\ InitBridge /\ bridge_env = TaskEnv /\ StoreIdle /\ InitTools /\ tool_env = UsageEnv
    /\ InitManager /\ InitTransport /\ followed = "srv"
    /\ RouterIdle

SpecManager == InitCallers /\ [][NextManager]_vars

InitStore ==
    /\ InitWorker /\ InitBridge /\ bridge_env = TaskEnv /\ InitTools /\ tool_env = UsageEnv
    /\ InitManager /\ mgr_env = LoadCallers
    /\ InitTransport /\ followed = "srv"
    /\ RouterIdle
    /\ InitConversations

SpecConversations == InitStore /\ [][NextConversations]_vars

SpecWorker == Init /\ [][NextWorker]_vars

NextBridge ==
    \/ Initialize
    \/ \E a \in Agents : register_python_agent(a)
    \/ HandlerReceive
    \/ HandlerNone
    \/ HandlerWake
    \/ HeartbeatTick
    \/ PeerClose
    \/ \E h \in MsgIds : TaskStart(h)
    \/ \E h \in MsgIds : TaskExecReturn(h)
    \/ \E h \in MsgIds : TaskExecRaise(h)
    \/ \E h \in MsgIds : TaskCancelled(h)
    \/ \E h \in MsgIds : TimeoutElapse(h)
    \/ ShutdownCall
    \/ ShutdownFinish

SpecBridge == Init /\ [][NextBridge]_vars

InitRegistry ==
    /\ InitWorker /\ InitBridge /\ bridge_env = RegistryEnv /\ StoreIdle
    /\ InitTools /\ tool_env = UsageEnv
    /\ InitManager /\ mgr_env = LoadCallers
    /\ InitTransport /\ followed = "srv"
    /\ RouterIdle

\* the registrations and the handling of one message, with the activities
\* that message starts
NextRegistry ==
    \/ Initialize
    \/ \E a \in Agents : register_python_agent(a)
    \/ HandlerWake
    \/ HandlerReceive
    \/ PeerClose
    \/ \E h \in MsgIds : TaskStart(h)
    \/ \E h \in MsgIds : TaskExecReturn(h)

SpecRegistry == InitRegistry /\ [][NextRegistry]_vars

\* the scheduler runs every activity that can take a step; calls from outside
\* (initialize, register, shutdown) and the orchestrator's moves are not forced
FairSpecBridge ==
    /\ Init
    /\ [][NextBridge]_vars
    /\ WF_vars(HandlerNone)
    /\ WF_vars(HandlerWake)
    /\ WF_vars(HeartbeatTick)
    /\ WF_vars(ShutdownFinish)
    /\ \A h \in MsgIds : WF_vars(TaskStart(h) \/ TaskCancelled(h))

(***************************************************************************)
(* Properties of the bridge                                                *)
(***************************************************************************)
Ended(h) == act[h].pc \in {"done", "cancelled"}

IsTerminal(f) == f.type = "task_response" /\ f.status \in TerminalStatuses

\* the number of terminal task-responses written for task id t
RECURSIVE CountTerminal(_, _)
CountTerminal(fs, t) ==
    IF fs = <<>> THEN 0
    ELSE (IF IsTerminal(Head(fs)) /\ Head(fs).task = t THEN 1 ELSE 0)
         + CountTerminal(Tail(fs), t)

RECURSIVE SumTerminal(_, _)
SumTerminal(hs, t) ==
    IF hs = {} THEN 0
    ELSE LET h == CHOOSE x \in hs : TRUE
         IN CountTerminal(replies[h], t) + SumTerminal(hs \ {h}, t)

NumTerminal(t) == SumTerminal(MsgIds, t)

\* C1: once the execution activity of an accepted task has ended, by sending
\* its completion response or by being cancelled by shutdown, exactly one
\* terminal task-response has been emitted for its task id
C1_ExactlyOneTerminal ==
    \A h \in MsgIds :
        act[h].outcome \in {"returned", "cancelled"} => NumTerminal(act[h].task) = 1

ReceivedIds == 1..nmsg

\* C4: every reply carries the id of a message received before as its
\* correlation id; the frames the bridge originates carry none
C4_CorrelationIds ==
    /\ \A h \in MsgIds : \A i \in 1..Len(replies[h]) :
         /\ replies[h][i].type \in ResponseTypes
         /\ replies[h][i].corr \in ReceivedIds
    /\ \A f \in originated : f.type \in OriginatedTypes /\ f.corr = NoCorr

C4_Witness ==
    /\ \E h \in MsgIds : Len(replies[h]) >= 2 /\ replies[h][2].corr = h
    /\ \E h \in MsgIds : Len(replies[h]) = 1 /\ replies[h][1].type = "heartbeat_response"
    /\ ShutdownMsg \in originated

\* C5: a shutdown call made after a shutdown call has returned changes neither
\* the connected flag, the active-task map, the transport nor the frames sent
C5_ShutdownIdempotent ==
    [][(shutdown_done /\ (ShutdownCall \/ ShutdownFinish)) =>
          /\ is_connected' = is_connected
          /\ active_tasks' = active_tasks
          /\ writer' = writer
          /\ UNCHANGED <<replies, originated, shutdown_sent>>]_vars

\* a second call is waiting in wait_closed after the first one sent the message
C5_Witness == shutdown_done /\ spc = "closing" /\ shutdown_sent = 1

\* C6: after shutdown has returned the bridge is disconnected and every
\* activity of the active-task map has ended or has its cancellation pending
C6_ShutdownDisconnects ==
    shutdown_done =>
        /\ ~is_connected
        /\ \A h \in MsgIds : InActiveTasks(h) /\ Live(h) => act[h].cancel

\* C7: once the orchestrator's end is closed the bridge becomes disconnected
C7_ConnectionLossDisconnects ==
    (is_connected /\ writer = "open" /\ ~peer_open) ~> ~is_connected

\* C8: a task whose timeout elapsed before execute returned has a timeout
\* response once its activity has ended with the transport up
C8_TimeoutResponse ==
    \A h \in MsgIds :
        (act[h].expired /\ act[h].pc = "done" /\ SendOK(writer, peer_open)) =>
            \E i \in 1..Len(replies[h]) : replies[h][i].status = "TIMEOUT"

\* C10: the step in which an agent's execute raises leaves the connected flag
\* and both loops as they are and, with the transport up, appends a failed
\* task-response for the task to its replies
C10_FailedTaskContained ==
    [][\A h \in MsgIds :
          (act[h].outcome # "raised" /\ act'[h].outcome = "raised") =>
              /\ is_connected' = is_connected
              /\ hpc' = hpc
              /\ hbpc' = hbpc
              /\ SendOK(writer, peer_open) =>
                   replies'[h] = Append(replies[h],
                                        Msg("task_response", h, act[h].task, "FAILED",
                                            act[h].agent))]_vars

\* a task has failed, its failed response is out, and a later message was
\* answered by the loop, which is still receiving
C10_Witness ==
    \E h \in MsgIds, k \in MsgIds :
        /\ h < k
        /\ act[h].outcome = "raised"
        /\ Len(replies[h]) = 3 /\ replies[h][3].status = "FAILED"
        /\ Len(replies[k]) >= 1
        /\ is_connected /\ hpc = "recv"

\* C11: a task-request that no registered agent can handle is answered with a
\* task-response of status failed and error code agent-unavailable
C11_NoAgentUnavailable ==
    \A h \in MsgIds :
        (act[h].pc = "none" /\ Len(replies[h]) >= 1
           /\ replies[h][1].type = "task_response") =>
            /\ replies[h][1].status = "FAILED"
            /\ replies[h][1].code = "AGENT_UNAVAILABLE"

(***************************************************************************)
(* Properties of the tool registry and of the manager                      *)
(***************************************************************************)
\* C3: whenever execute_tool has invoked a tool's callable for an agent, the
\* tool was public or in the agent's grant list at that moment
C3_InvokedOnlyWithPermission ==
    last_invoked # NoInvocation =>
        last_invoked.level = "public" \/ last_invoked.granted

\* a granted restricted tool was invoked for A and has been revoked since
C3_Witness ==
    /\ last_invoked.agent = "A"
    /\ last_invoked.tool = "file_read"
    /\ last_invoked.level = "restricted"
    /\ last_invoked.granted
    /\ "A" \in DOMAIN agent_permissions
    /\ ~InSeq("file_read", agent_permissions["A"])

\* C9: the active-task map never holds more entries than the configured cap
C9_ActiveTasksCapped == Cardinality(mgr_active_tasks) <= max_concurrent_tasks
C13_OversizeEndsConnection ==
    /\ [](\A c \in Conns :
            (cur[c].n > 0 /\ cur[c].length > max_message_size) =>
                /\ cur[c].kind = "too_large"
                /\ rpc[c] = "ended"
                /\ cur[c].n \notin body_reads[c]
                /\ ~InSeq(cur[c].n, delivered[c]))
    /\ ((cur["srv"].n > 0 /\ cur["srv"].length > max_message_size)
           ~> ("srv" \notin _clients))

C13_Witness ==
    /\ cur["srv"].n = 2
    /\ cur["srv"].length > max_message_size
    /\ delivered["srv"] = <<1>>
    /\ "srv" \notin _clients
    /\ wclosed["srv"]

\* C14: for a frame of declared length 0 no message is delivered to the
\* handler and no read is made for its body
C14_ZeroLengthRejected ==
    \A c \in Conns :
        (cur[c].n > 0 /\ cur[c].length = 0) =>
            /\ cur[c].n \notin body_reads[c]
            /\ ~InSeq(cur[c].n, delivered[c])

C14_Witness ==
    \E c \in Conns :
        /\ cur[c].n = 2
        /\ cur[c].length = 0
        /\ delivered[c] = <<1>>
        /\ body_reads[c] = {1}

\* C15: a frame that fails deserialization or validation is dropped: the
\* handler is not invoked, the loop goes on reading and the connection stays
\* open; a valid frame is handed to the handler whatever came before it
C15_InvalidFrameDropped ==
    [][\A c \in Conns :
          /\ (cur[c].kind = "header" /\ cur'[c].kind \in {"garbage", "invalid"}) =>
                /\ delivered'[c] = delivered[c]
                /\ rpc'[c] = "header"
                /\ conn_running'[c]
                /\ ~wclosed'[c]
                /\ (c \in _clients => c \in _clients')
          /\ (cur[c].kind = "header" /\ cur'[c].kind = "valid") =>
                delivered'[c] = Append(delivered[c], cur[c].n)]_vars

\* frame 1 was dropped, frame 2 was delivered after it
C15_Witness ==
    \E c \in Conns :
        /\ delivered[c] = <<2>>
        /\ cur[c].kind = "valid"
        /\ conn_running[c]

\* C16: what is written to a connection is a sequence of whole frames, each
\* header directly followed by its own body, in the order in which the sends
\* were issued
C16_SendsSerialized ==
    \A c \in Conns :
        /\ Len(wire[c]) % 2 = 0
        /\ \A k \in 1..(Len(wire[c]) \div 2) :
             /\ wire[c][2 * k - 1].part = "hdr"
             /\ wire[c][2 * k].part = "body"
             /\ wire[c][2 * k - 1].frame = wire[c][2 * k].frame
             /\ k > 1 => wire[c][2 * k - 1].frame.n > wire[c][2 * k - 3].frame.n

\* three activities have each a frame on the same connection
C16_Witness ==
    /\ Len(wire["srv"]) = 6
    /\ Cardinality({wire["srv"][i].frame.by : i \in 1..6}) = 3

\* C17: once connect has returned with the client connected, the client's
\* receive loop is running
C17_ConnectedWhileReceiving ==
    (cpc = "returned" /\ _connected) => rpc["cli"] \in {"header", "body", "drain"}


(***************************************************************************)
(* Properties of the router and of the manager's choice of worker          *)
(***************************************************************************)
\* C18: in every execute_task call a preferred worker that is in the pool is
\* the worker the task is given to, whatever the description; without such a
\* preference the keyword rules decide
C18_PreferredWins ==
    [][mgr_issued' = mgr_issued + 1 =>
          LET p == mgr_last'.preferred IN
          IF p # NoPreferred /\ p \in mgr_agents
          THEN /\ mgr_last'.agent = p
               /\ mgr_issued' \in mgr_active_tasks'
               /\ mgr_assigned'[mgr_issued'].agent = p
          ELSE mgr_last'.agent = _route_task(mgr_last'.description)]_vars

\* a research task given to the preferred writer
C18_Witness ==
    /\ mgr_last.description = DescribeResearch
    /\ mgr_last.preferred = "writer_agent_v2"
    /\ mgr_last.agent = "writer_agent_v2"
    /\ mgr_issued \in mgr_active_tasks
    /\ mgr_assigned[mgr_issued].agent = "writer_agent_v2"

WorkerOfGroup ==
    <<"computer_use_agent_v2", "research_agent_v2", "vision_agent_v2",
      "code_writer_agent_v2", "writer_agent_v2">>

KeywordsOfGroup ==
    <<computer_keywords, research_keywords, vision_keywords, code_keywords,
      writing_keywords>>

\* some keyword of group g occurs in d, letter case aside
GroupMatches(g, d) ==
    \E k \in 1..Len(KeywordsOfGroup[g]) :
        LET kw == KeywordsOfGroup[g][k] IN
        \E off \in 0..(Len(d) - Len(kw)) :
            \A j \in 1..Len(kw) : LowerChar(d[off + j]) = LowerChar(kw[j])

\* C19: the router returns the worker of the first keyword group, in the
\* order computer-use, research, vision, code, writing, of which a keyword
\* occurs in the description as a case-insensitive substring, and the
\* supervisor when no group matches
C19_FirstMatchingGroup ==
    rt_chosen # "pending" =>
        LET matching == {g \in 1..Len(WorkerOfGroup) : GroupMatches(g, rt_description)} IN
        IF matching = {}
        THEN rt_chosen = "supervisor_cartrita_v2"
        ELSE rt_chosen = WorkerOfGroup[CHOOSE g \in matching : \A h \in matching : g <= h]

\* "SEARCHimage" matches the research and the vision group and went to research
C19_Witness ==
    /\ rt_chosen = "research_agent_v2"
    /\ GroupMatches(2, rt_description)
    /\ GroupMatches(3, rt_description)
    /\ ~Contains(rt_description, research_keywords[1])

\* C20: an execute_task call with the description, the preference and the
\* pool of the call before it chooses the same worker, whatever was routed
\* or recorded in between
C20_RouterDeterministic ==
    [][(/\ mgr_issued' = mgr_issued + 1
        /\ mgr_last # NoRouting
        /\ mgr_last'.description = mgr_last.description
        /\ mgr_last'.preferred = mgr_last.preferred
        /\ mgr_last'.pool = mgr_last.pool) =>
          mgr_last'.agent = mgr_last.agent]_vars

\* the same description was routed to the supervisor before and after the
\* supervisor's record changed
C20_Witness ==
    /\ mgr_issued = 2
    /\ mgr_issued \in mgr_active_tasks
    /\ Len(mgr_delegation_history) = 1
    /\ mgr_delegation_history[1].description = mgr_last.description
    /\ mgr_delegation_history[1].assigned_agent = mgr_last.agent
    /\ mgr_last.preferred = NoPreferred
    /\ mgr_last.agent = "supervisor_cartrita_v2"
    /\ mgr_performance["supervisor_cartrita_v2"].tasks_completed = 1

(***************************************************************************)
(* Properties of the worker pool                                           *)
(***************************************************************************)
\* C21: the success rate of every worker of the pool is within [0, 1] in
\* every reachable state; it is 1.0 when the worker is created, and every
\* recorded response replaces it by 0.1 * s + 0.9 * old, s being 1 for a
\* successful response and 0 for a failed one (a worker that was shut down in
\* the meantime has no rate)
C21_SuccessRateInRange ==
    /\ [](\A a \in mgr_agents :
            /\ mgr_performance[a].success_rate >= 0
            /\ mgr_performance[a].success_rate <= RateOne)
    /\ [][/\ \A a \in AgentIds :
               (a \notin mgr_agents /\ a \in mgr_agents') =>
                   mgr_performance'[a].success_rate = RateOne
          /\ Len(mgr_delegation_history') = Len(mgr_delegation_history) + 1 =>
               LET e == mgr_delegation_history'[Len(mgr_delegation_history')]
                   a == e.assigned_agent
               IN mgr_performance[a] # NoRecord =>
                      10 * mgr_performance'[a].success_rate =
                          (IF e.success THEN RateOne ELSE 0)
                              + 9 * mgr_performance[a].success_rate]_vars

\* a worker whose record saw a failure, a success and a failure: 0.819
C21_Witness ==
    \E a \in mgr_agents :
        /\ mgr_performance[a].tasks_completed = 3
        /\ 1000 * mgr_performance[a].success_rate = 819 * RateOne
        /\ Len(mgr_delegation_history) = 3
        /\ ~mgr_delegation_history[1].success
        /\ mgr_delegation_history[2].success
        /\ ~mgr_delegation_history[3].success

\* C22: create_agent with an id that is in the pool ends with an error and
\* leaves the pool as it was: the workers, their configs and their
\* performance records; this holds for calls from outside and for the calls
\* of the default initialisation, which names research_agent_v2 twice
C22_DuplicateCreateRejected ==
    /\ [][(mgr_created'.n = mgr_created.n + 1 /\ mgr_created'.agent_id \in mgr_agents) =>
            /\ mgr_created'.raised
            /\ UNCHANGED <<mgr_agents, mgr_agent_configs, mgr_performance>>]_vars
    /\ [][(mgr_init_done' /\ ~mgr_init_done) =>
            \A a \in mgr_agents :
                /\ a \in mgr_agents'
                /\ mgr_agent_configs'[a] = mgr_agent_configs[a]
                /\ mgr_performance'[a] = mgr_performance[a]]_vars
    /\ [](\A a \in DefaultAgents : mgr_agent_configs[a] \in {NoConfig, "get_model_for_agent", "caller"})

\* research_agent_v2 had completed a task when it was created again
C22_Witness ==
    /\ mgr_created = [n |-> 1, agent_id |-> "research_agent_v2", raised |-> TRUE]
    /\ mgr_init_done
    /\ mgr_agent_configs["research_agent_v2"] = "get_model_for_agent"
    /\ mgr_performance["research_agent_v2"].tasks_completed = 1
    /\ mgr_performance["research_agent_v2"].success_rate < RateOne

(***************************************************************************)
(* Properties of the registry's grants, refusals and lookups               *)
(***************************************************************************)
Occurrences(seq, n) == Cardinality({i \in 1..Len(seq) : seq[i] = n})

PermissionState == <<tools, tool_permissions, agent_permissions>>

\* C23: after a grant every name is in the agent's list once, however often
\* it was granted; a grant of names that are all granted already, and a
\* revocation of names of which none is granted (also for an agent without
\* a permission record), leave the permission state unchanged; after a
\* revocation no revoked name is in the agent's list, so that the permission
\* check passes it only if it is public
C23_GrantRevokeAlgebra ==
    [][LET a == tool_call'.agent
           ns == tool_call'.names
           named == {ns[i] : i \in 1..Len(ns)}
       IN /\ tool_call'.op = "grant_permission" =>
               /\ \A n \in ToolNames : Occurrences(agent_permissions'[a], n) <= 1
               /\ \A n \in named \cap tools : InSeq(n, agent_permissions'[a])
               /\ (\A n \in named \cap tools : InSeq(n, AgentTools(a))) =>
                      /\ UNCHANGED <<tools, tool_permissions>>
                      /\ \A b \in DOMAIN agent_permissions' : agent_permissions'[b] = AgentTools(b)
          /\ tool_call'.op = "revoke_permission" =>
               /\ (\A n \in named : ~InSeq(n, AgentTools(a))) => UNCHANGED PermissionState
               /\ \A n \in named :
                      \/ a \notin DOMAIN agent_permissions'
                      \/ ~InSeq(n, agent_permissions'[a])]_vars

\* file_read was named twice in one grant and is in the list once
C23_Witness ==
    /\ tool_call.op = "grant_permission"
    /\ tool_call.agent = "A"
    /\ tool_call.names = <<"file_read", "file_read">>
    /\ agent_permissions["A"] = <<"file_read">>

\* C24: no agent's grant list contains a tool of admin level, and no tool
\* of admin level is invoked
C24_AdminNeverGranted ==
    /\ \A a \in DOMAIN agent_permissions :
          \A i \in 1..Len(agent_permissions[a]) :
              tool_permissions[agent_permissions[a][i]] # "admin"
    /\ last_invoked.level # "admin"

\* C25: an execute_tool call is refused exactly when the name is not
\* registered (tool not found) or the agent lacks permission, and a refused
\* call changes nothing: no callable is invoked, the execution log and the
\* usage counters stay as they are
C25_RefusedChangesNothing ==
    [][tool_call'.op = "execute_tool" =>
         LET a == tool_call'.agent
             n == tool_call'.names[1]
             permitted == tool_permissions[n] = "public" \/ InSeq(n, AgentTools(a))
         IN /\ tool_call'.result = "not_found" <=> n \notin tools
            /\ tool_call'.result = "lacks_permission" <=> (n \in tools /\ ~permitted)
            /\ tool_call'.result \in {"not_found", "lacks_permission"} =>
                 UNCHANGED <<tools, tool_permissions, agent_permissions, tool_usage,
                             execution_history, last_invoked>>]_vars

\* A was refused file_read after a tool had been run
C25_Witness ==
    /\ tool_call = Call("execute_tool", "A", <<"file_read">>, "lacks_permission", {})
    /\ Len(execution_history) = 1
    /\ tool_permissions["file_read"] = "restricted"

\* C28: get_tools_for_agent returns exactly the registered tools that are
\* public, granted to the agent, or named in requested
C28_ToolsForAgent ==
    tool_call.op = "get_tools_for_agent" =>
        LET a == tool_call.agent
            requested == {tool_call.names[i] : i \in 1..Len(tool_call.names)}
            granted == {AgentTools(a)[i] : i \in 1..Len(AgentTools(a))}
            public == {n \in ToolNames : tool_permissions[n] = "public"}
        IN tool_call.tools_returned = tools \cap (public \cup granted \cup requested)

\* an unregistered and a restricted ungranted name were requested: only the
\* registered one came back, next to the public tools
C28_Witness ==
    /\ tool_call.op = "get_tools_for_agent"
    /\ tool_call.names = <<"file_read", "missing_tool">>
    /\ tool_permissions["file_read"] = "restricted"
    /\ ~InSeq("file_read", AgentTools("A"))
    /\ tool_call.tools_returned = {"file_read", "web_search", "system_info"}

C36_GrantsOnlyRegisteredTools ==
    /\ [](\A a \in DOMAIN agent_permissions :
             \A i \in 1..Len(agent_permissions[a]) : agent_permissions[a][i] \in tools)
    /\ [][/\ \A g \in tool_env.grants :
               grant_permission(g[1], g[2]) =>
                   \A i \in 1..Len(g[2]) :
                       g[2][i] \notin tools => ~InSeq(g[2][i], agent_permissions'[g[1]])
          /\ \A n \in ToolNames :
               (n \notin tools /\ n \in tools') =>
                   \A a \in ToolAgents :
                       tool_permissions'[n] # "public" => ~(_check_permission(a, n))']_vars

\* admin_tool was granted to A together with file_read before it was
\* registered; it is registered now and A holds file_read only
C36_Witness ==
    /\ "admin_tool" \in tools
    /\ tool_permissions["admin_tool"] = "restricted"
    /\ "A" \in DOMAIN agent_permissions
    /\ agent_permissions["A"] = <<"file_read">>
    /\ tool_call = Call("execute_tool", "A", <<"admin_tool">>, "lacks_permission", {})

(***************************************************************************)
(* Properties of the bridge's registry and of its choice of an agent       *)
(***************************************************************************)
\* the call of register_python_agent that first stored the agent a
FirstStored(a) ==
    CHOOSE i \in 1..Len(reg_log) :
        reg_log[i] = a /\ \A j \in 1..(i - 1) : reg_log[j] # a

\* C31: a task request that some stored agent can handle is given to a stored
\* agent that can handle it, and no agent that can handle it was stored
\* earlier, whatever registrations came before, repeated names included.
C31_FirstRegisteredWins ==
    [][\A t \in TaskIds, rc \in ReqCaps, gone \in BOOLEAN :
          HandleMessage(Received("task_request", t, rc), ~gone) =>
              \A b \in Agents :
                  (InSeq(b, reg_log) /\ can_handle_task(b, rc)) =>
                      /\ act'[nmsg + 1].pc # "none"
                      /\ InSeq(act'[nmsg + 1].agent, reg_log)
                      /\ can_handle_task(act'[nmsg + 1].agent, rc)
                      /\ FirstStored(act'[nmsg + 1].agent) <= FirstStored(b)]_vars

C31_Witness ==
    /\ Len(reg_log) = 3
    /\ reg_log[1] = reg_log[3]
    /\ reg_log[2] # reg_log[1]
    /\ nmsg = 1
    /\ act[1].pc = "created"
    /\ act[1].agent = reg_log[1]
    /\ reg_calls = 3

\* C37: an agent name is listed under a capability exactly when the agent is
\* stored and declares it, and at most once.
C37_IndexAgreesWithRegistry ==
    \A c \in Caps, a \in Agents :
        /\ InSeq(a, capability_index[c]) <=>
               (InSeq(a, registered_agents) /\ c \in AgentCaps(a))
        /\ Cardinality({i \in 1..Len(capability_index[c]) :
                            capability_index[c][i] = a}) <= 1

(***************************************************************************)
(* Properties of the bridge's task records                                 *)
(***************************************************************************)
\* a terminal task-response of the activity h was written
TerminalSent(h) == \E i \in 1..Len(replies[h]) : IsTerminal(replies[h][i])

\* C27: every task whose execution activity has ended in a terminal state, its
\* terminal response sent or not, has an entry under its task id in
\* task_results.
C27_TerminalResultRetained ==
    \A h \in MsgIds : act[h].pc = "done" => act[h].task \in task_results

\* C29: an execution activity that has ended, whether its task completed or
\* failed, is no longer the entry of its task id in active_tasks.
C29_EndedTaskRemoved ==
    \A h \in MsgIds : act[h].pc = "done" => active_tasks[act[h].task] # h

\* the accepted and running updates written for the activity h
ProgressUpdates(h) ==
    {i \in 1..Len(replies[h]) : replies[h][i].status \in {"ACCEPTED", "RUNNING"}}

C32_NoCapableAgentFails ==
    [][\A t \in TaskIds, rc \in ReqCaps, gone \in BOOLEAN :
          (/\ HandleMessage(Received("task_request", t, rc), ~gone)
           /\ \A b \in Agents : InSeq(b, registered_agents) => ~can_handle_task(b, rc))
          => /\ act' = act
             /\ active_tasks' = active_tasks
             /\ replies' = [replies EXCEPT ![nmsg + 1] =
                              IF gone THEN <<>>
                              ELSE <<Msg("task_response", nmsg + 1, t, "FAILED",
                                         NoAgent)>>]]_vars

C32_Witness ==
    /\ nmsg = 2
    /\ registered_agents # <<>>
    /\ act[1].pc = "executing"
    /\ active_tasks["t1"] = 1
    /\ act[2].pc = "none"
    /\ replies[2] = <<Msg("task_response", 2, "t1", "FAILED", NoAgent)>>

\* C33: every execution activity that is still running is the entry of its
\* task id in active_tasks, so that shutdown finds and cancels it.
C33_LiveActivityInMap ==
    \A h \in MsgIds : Live(h) => active_tasks[act[h].task] = h

Delegated(id) ==
    /\ mgr_task_results[id] = NoResult
    /\ mgr_task_results'[id] \in {"success", "failure"}

\* what a delegated call stores and appends, whatever the worker's record
DelegationRecorded(id) ==
    LET w == mgr_assigned[id].agent IN
    /\ mgr_delegation_history' =
           Append(mgr_delegation_history,
                  [description |-> Truncate(mgr_assigned[id].description),
                   assigned_agent |-> w,
                   success |-> mgr_task_results'[id] = "success"])
    /\ \A other \in 1..MaxMgrTasks \ {id} : mgr_task_results'[other] = mgr_task_results[other]
    /\ \A a \in AgentIds \ {w} : mgr_performance'[a] = mgr_performance[a]

HistoryOnlyGrows ==
    /\ Len(mgr_delegation_history') >= Len(mgr_delegation_history)
    /\ SubSeq(mgr_delegation_history', 1, Len(mgr_delegation_history))
           = mgr_delegation_history

\* C34, as stated: every delegated call stores the response under its task
\* id, adds exactly 1 to its worker's tasks_completed, appends one
\* delegation-history entry with that worker and the response's success flag,
\* and changes no other worker's record; the history only grows.
C34_DelegationCounted ==
    [][/\ HistoryOnlyGrows
       /\ \A id \in 1..MaxMgrTasks :
            Delegated(id) =>
                /\ DelegationRecorded(id)
                /\ mgr_performance'[mgr_assigned[id].agent].tasks_completed
                       = mgr_performance[mgr_assigned[id].agent].tasks_completed + 1]_vars

\* C34, amended: as above, with 1 added to tasks_completed when the worker
\* still has a performance record; for a worker that was shut down while the
\* call was in flight the response is stored and the entry appended, and no
\* record is made or changed.
C34_DelegationCountedWhenRecorded ==
    [][/\ HistoryOnlyGrows
       /\ \A id \in 1..MaxMgrTasks :
            Delegated(id) =>
                LET w == mgr_assigned[id].agent IN
                /\ DelegationRecorded(id)
                /\ mgr_performance[w] # NoRecord =>
                       mgr_performance'[w].tasks_completed
                           = mgr_performance[w].tasks_completed + 1
                /\ mgr_performance[w] = NoRecord => mgr_performance'[w] = NoRecord]_vars

\* a call on code_writer_agent_v2 ended after that worker was shut down, and
\* another call was counted for the supervisor
C34_Witness ==
    /\ mgr_env = PoolCallers
    /\ Len(mgr_delegation_history) = 2
    /\ mgr_delegation_history[1].assigned_agent = "code_writer_agent_v2"
    /\ mgr_performance["code_writer_agent_v2"] = NoRecord
    /\ mgr_delegation_history[2].assigned_agent = "supervisor_cartrita_v2"
    /\ mgr_performance["supervisor_cartrita_v2"].tasks_completed = 1
    /\ mgr_task_results[1] = "success"
    /\ mgr_task_results[2] = "failure"

\* C38: the worker execute_task takes for a task is in the pool at that
\* moment.
C38_RoutedWorkerInPool ==
    mgr_last.agent # NoAgent => mgr_last.agent \in mgr_last.pool

(***************************************************************************)
(* Properties of a worker's status                                         *)
(***************************************************************************)
\* C39: a worker whose status is idle and whose current task is unset has no
\* execute_task call in flight.
C39_IdleMeansNoCallInFlight ==
    (wk_status = "idle" /\ wk_current_task = NoTask) =>
        \A c \in WorkerCalls : wk_calls[c] # "running"

(***************************************************************************)
(* Properties of the conversation store                                    *)
(***************************************************************************)
\* the latest moment a stored conversation was written or returned to a reader
LastUse(id) ==
    IF conv_read[id] > ActivityOf(conversations, id)
    THEN conv_read[id]
    ELSE ActivityOf(conversations, id)

\* C26: a read refreshes a conversation like a write does, so whenever a step
\* removes a conversation from the store and keeps another one, the removed
\* conversation was not used (written, or returned by get_conversation_history)
\* more recently than the one kept.
C26_RecentlyReadNotEvictedFirst ==
    [][\A e \in ConvIds, k \in ConvIds :
          (/\ HasConversation(conversations, e)
           /\ HasConversation(conversations, k)
           /\ ~HasConversation(conversations', e)
           /\ HasConversation(conversations', k))
          => LastUse(e) <= LastUse(k)]_vars

\* C26, the part about writes alone: the entries removed are never more
\* recently written than an entry kept, and the conversation just created stays
\* whenever the capacity is at least one.
C26_EvictsOldestActivity ==
    [][\A e \in ConvIds, k \in ConvIds :
          (/\ HasConversation(conversations, e)
           /\ ~HasConversation(conversations', e)
           /\ HasConversation(conversations', k))
          => /\ ActivityOf(conversations, e) <= ActivityOf(conversations', k)
             /\ \E n \in ConvIds : /\ ~HasConversation(conversations, n)
                                   /\ HasConversation(conversations', n)]_vars

\* C26, the bound: the store never holds more than max_conversations entries.
C26_AtMostMaxConversations ==
    Len(conversations) <= max_conversations

\* C26, the bound for the capacities from one up
C26_AtMostMaxWhenPositive ==
    max_conversations >= 1 => Len(conversations) <= max_conversations

====
